---- MODULE Spec2Model ----
(***************************************************************************)
(* A model of the job-to-resume matching and ranking pipeline of           *)
(* JobMatchAI: backend/agents/job_matcher.py (JobMatcher),                 *)
(* backend/agents/job_ranker.py (JobRanker),                               *)
(* backend/agents/job_aggregator.py (JobAggregator),                       *)
(* backend/agents/application_tracker.py (ApplicationTracker) and the      *)
(* callers in backend/main.py.                                             *)
(*                                                                         *)
(* Representation of Python values                                         *)
(*   str            a sequence of one-character strings                    *)
(*   None | number  <<>> for None, <<n>> for the number n                  *)
(*   dict           a function whose DOMAIN is the set of keys present     *)
(*   list           a sequence                                             *)
(*   score (float)  a rational; a score rounded to one decimal is kept in  *)
(*                  tenths (87.5 is 875)                                   *)
(***************************************************************************)
EXTENDS Integers, Sequences, FiniteSets, TLC

VARIABLES pc, now, cv_data, jobs, filters, result, experience_years, required_years,
          request, uploads, response, vectorizer, calls,
          upstream, fetches, applications, sequence, locked, call, reply, step

\* what a search request adds: the request, the files of the uploads directory and
\* the response
search_vars == <<request, uploads, response>>

\* the TfidfVectorizer of the JobMatcher and the calls that use it
vectorizer_vars == <<vectorizer, calls>>

\* what the three job sources answered and what each fetch returned
aggregator_vars == <<upstream, fetches>>

\* the applications table, its row counter and whether a connection that was
\* never closed holds the write lock of the database; the last call of the
\* tracker with what it returned, the last reply of the update-status handler,
\* and the number of calls made
tracker_vars == <<applications, sequence, locked, call, reply, step>>

vars == <<pc, now, cv_data, jobs, filters, result, experience_years, required_years,
          search_vars, vectorizer_vars, aggregator_vars, tracker_vars>>

(***************************************************************************)
(* Python built-ins                                                        *)
(***************************************************************************)

\* None, and an optional number
None == <<>>

Some(n) == <<n>>

\* dict.get(key, default)
Get(d, key, default) == IF key \in DOMAIN d THEN d[key] ELSE default

\* truth value of an optional number: None and 0 are false
TruthyNum(x) == x # None /\ x[1] # 0

\* truth value of a str or a list: empty is false
TruthySeq(s) == Len(s) > 0

UpperChars == <<"A","B","C","D","E","F","G","H","I","J","K","L","M",
                "N","O","P","Q","R","S","T","U","V","W","X","Y","Z">>

LowerChars == <<"a","b","c","d","e","f","g","h","i","j","k","l","m",
                "n","o","p","q","r","s","t","u","v","w","x","y","z">>

LowerChar(c) ==
    IF \E i \in 1..26 : UpperChars[i] = c
    THEN LowerChars[CHOOSE i \in 1..26 : UpperChars[i] = c]
    ELSE c

\* str.lower()
Lower(s) == [i \in 1..Len(s) |-> LowerChar(s[i])]

\* needle in hay (substring test)
Contains(hay, needle) ==
    \E i \in 0..(Len(hay) - Len(needle)) : SubSeq(hay, i + 1, i + Len(needle)) = needle

\* s[:n]
Prefix(s, n) == SubSeq(s, 1, IF Len(s) < n THEN Len(s) ELSE n)

Reverse(s) == [i \in 1..Len(s) |-> s[Len(s) + 1 - i]]

\* A stable ascending sort of s by the integer keys (keys[i] is the key of s[i]):
\* an element goes after every element of a smaller key and after the elements of
\* an equal key that came before it.
StableSortAsc(s, keys) ==
    LET n == Len(s)
        pos(i) == 1 + Cardinality({j \in 1..n : keys[j] < keys[i]})
                    + Cardinality({j \in 1..(i - 1) : keys[j] = keys[i]})
    IN  [p \in 1..n |-> s[CHOOSE i \in 1..n : pos(i) = p]]

ListSortAscThenReverse(s, keys) == Reverse(StableSortAsc(s, keys))

\* list.sort(key=..., reverse=True): CPython reverses the list, sorts it ascending
\* (stable) and reverses it again, which keeps equal keys in their original order.
ListSortReverse(s, keys) == Reverse(StableSortAsc(Reverse(s), Reverse(keys)))

(***************************************************************************)
(* datetime: a naive datetime is [day |-> proleptic Gregorian ordinal,      *)
(* sec |-> second of the day, aware |-> FALSE]; an aware one (with a UTC    *)
(* offset) has aware |-> TRUE.  NoDate is the None that _parse_date returns. *)
(***************************************************************************)

Digits == <<"0","1","2","3","4","5","6","7","8","9">>

IsDigit(c) == \E i \in 1..10 : Digits[i] = c

DigitVal(c) == (CHOOSE i \in 1..10 : Digits[i] = c) - 1

AllDigits(s) == \A i \in 1..Len(s) : IsDigit(s[i])

RECURSIVE ParseInt(_)
\* int(s) for a string of digits
ParseInt(s) ==
    IF Len(s) = 0 THEN 0
    ELSE 10 * ParseInt(SubSeq(s, 1, Len(s) - 1)) + DigitVal(s[Len(s)])

IsLeap(y) == (y % 4 = 0) /\ ((y % 100 # 0) \/ (y % 400 = 0))

DaysInMonth(y, m) ==
    IF m = 2 THEN (IF IsLeap(y) THEN 29 ELSE 28)
    ELSE IF m \in {4, 6, 9, 11} THEN 30 ELSE 31

RECURSIVE DaysBeforeMonth(_, _)
DaysBeforeMonth(y, m) ==
    IF m = 1 THEN 0 ELSE DaysBeforeMonth(y, m - 1) + DaysInMonth(y, m - 1)

\* datetime.toordinal() of year y, month m, day d
Ordinal(y, m, d) ==
    LET p == y - 1
    IN  365 * p + (p \div 4) - (p \div 100) + (p \div 400) + DaysBeforeMonth(y, m) + d

ValidDate(y, m, d) == y >= 1 /\ m \in 1..12 /\ d >= 1 /\ d <= DaysInMonth(y, m)

NoDate == [day |-> 0, sec |-> 0, aware |-> FALSE, ok |-> FALSE]

MkDate(y, m, d, s, tz) == [day |-> Ordinal(y, m, d), sec |-> s, aware |-> tz, ok |-> TRUE]

RECURSIVE ReplaceZ(_)
\* date_str.replace('Z', '+00:00')
ReplaceZ(s) ==
    IF Len(s) = 0 THEN <<>>
    ELSE IF Head(s) = "Z" THEN <<"+","0","0",":","0","0">> \o ReplaceZ(Tail(s))
    ELSE <<Head(s)>> \o ReplaceZ(Tail(s))

\* HH:MM as a pair of two-digit fields in range
IsHHMM(s) ==
    /\ Len(s) = 5
    /\ AllDigits(SubSeq(s, 1, 2)) /\ s[3] = ":" /\ AllDigits(SubSeq(s, 4, 5))
    /\ ParseInt(SubSeq(s, 1, 2)) < 24 /\ ParseInt(SubSeq(s, 4, 5)) < 60

\* a UTC offset +HH:MM or -HH:MM
IsOffset(s) == Len(s) = 6 /\ s[1] \in {"+", "-"} /\ IsHHMM(SubSeq(s, 2, 6))

\* HH:MM:SS, optionally followed by a fraction of 3 or 6 digits
IsClock(s) ==
    /\ Len(s) \in {8, 12, 15}
    /\ IsHHMM(SubSeq(s, 1, 5))
    /\ s[6] = ":" /\ AllDigits(SubSeq(s, 7, 8)) /\ ParseInt(SubSeq(s, 7, 8)) < 60
    /\ Len(s) > 8 => (s[9] = "." /\ AllDigits(SubSeq(s, 10, Len(s))))

ClockSeconds(s) ==
    3600 * ParseInt(SubSeq(s, 1, 2)) + 60 * ParseInt(SubSeq(s, 4, 5)) + ParseInt(SubSeq(s, 7, 8))

\* datetime.fromisoformat(s): YYYY-MM-DD, optionally one separator character and
\* HH:MM:SS[.fff[fff]], optionally a UTC offset; anything else raises ValueError,
\* which is NoDate here.
FromIsoFormat(s) ==
    IF ~(/\ Len(s) >= 10
         /\ AllDigits(SubSeq(s, 1, 4)) /\ s[5] = "-"
         /\ AllDigits(SubSeq(s, 6, 7)) /\ s[8] = "-"
         /\ AllDigits(SubSeq(s, 9, 10)))
    THEN NoDate
    ELSE
      LET y == ParseInt(SubSeq(s, 1, 4))
          m == ParseInt(SubSeq(s, 6, 7))
          d == ParseInt(SubSeq(s, 9, 10))
          rest == SubSeq(s, 12, Len(s))
          hasTz == Len(rest) >= 6 /\ IsOffset(SubSeq(rest, Len(rest) - 5, Len(rest)))
          clock == IF hasTz THEN SubSeq(rest, 1, Len(rest) - 6) ELSE rest
      IN  IF ~ValidDate(y, m, d) THEN NoDate
          ELSE IF Len(s) = 10 THEN MkDate(y, m, d, 0, FALSE)
          ELSE IF Len(s) >= 12 /\ IsClock(clock) THEN MkDate(y, m, d, ClockSeconds(clock), hasTz)
          ELSE NoDate

RECURSIVE Split(_, _)
\* s.split(sep) for a one-character separator
Split(s, sep) ==
    IF \A i \in 1..Len(s) : s[i] # sep THEN <<s>>
    ELSE LET k == CHOOSE i \in 1..Len(s) : s[i] = sep /\ \A j \in 1..(i - 1) : s[j] # sep
         IN  <<SubSeq(s, 1, k - 1)>> \o Split(SubSeq(s, k + 1, Len(s)), sep)

\* a %m or %d field: one or two digits
IsShortField(s) == Len(s) \in {1, 2} /\ AllDigits(s)

\* a %Y field: exactly four digits
IsYearField(s) == Len(s) = 4 /\ AllDigits(s)

\* datetime.strptime(s, '%Y-%m-%d')
StrptimeYmd(s) ==
    LET f == Split(s, "-")
    IN  IF Len(f) = 3 /\ IsYearField(f[1]) /\ IsShortField(f[2]) /\ IsShortField(f[3])
           /\ ValidDate(ParseInt(f[1]), ParseInt(f[2]), ParseInt(f[3]))
        THEN MkDate(ParseInt(f[1]), ParseInt(f[2]), ParseInt(f[3]), 0, FALSE)
        ELSE NoDate

\* datetime.strptime(s, '%d/%m/%Y')
StrptimeDmy(s) ==
    LET f == Split(s, "/")
    IN  IF Len(f) = 3 /\ IsShortField(f[1]) /\ IsShortField(f[2]) /\ IsYearField(f[3])
           /\ ValidDate(ParseInt(f[3]), ParseInt(f[2]), ParseInt(f[1]))
        THEN MkDate(ParseInt(f[3]), ParseInt(f[2]), ParseInt(f[1]), 0, FALSE)
        ELSE NoDate

\* datetime.strptime(s, '%m/%d/%Y')
StrptimeMdy(s) ==
    LET f == Split(s, "/")
    IN  IF Len(f) = 3 /\ IsShortField(f[1]) /\ IsShortField(f[2]) /\ IsYearField(f[3])
           /\ ValidDate(ParseInt(f[3]), ParseInt(f[1]), ParseInt(f[2]))
        THEN MkDate(ParseInt(f[3]), ParseInt(f[1]), ParseInt(f[2]), 0, FALSE)
        ELSE NoDate

\* JobRanker._parse_date: the first attempt that succeeds.  '%Y-%m-%dT%H:%M:%S' is
\* tried on the first 10 characters and can never match them (its shortest match,
\* 2024-1-1T1:1:1, has 14), so that attempt always fails.
_parse_date(date_str) ==
    IF ~TruthySeq(date_str) THEN NoDate
    ELSE IF FromIsoFormat(ReplaceZ(date_str)).ok THEN FromIsoFormat(ReplaceZ(date_str))
    ELSE IF StrptimeYmd(Prefix(date_str, 10)).ok THEN StrptimeYmd(Prefix(date_str, 10))
    ELSE IF StrptimeDmy(Prefix(date_str, 10)).ok THEN StrptimeDmy(Prefix(date_str, 10))
    ELSE IF StrptimeMdy(Prefix(date_str, 10)).ok THEN StrptimeMdy(Prefix(date_str, 10))
    ELSE NoDate

\* a >= b for two naive datetimes
DateGe(a, b) == a.day > b.day \/ (a.day = b.day /\ a.sec >= b.sec)

\* now - timedelta(days=n)
MinusDays(t, n) == [t EXCEPT !.day = t.day - n]

(***************************************************************************)
(* String literals of job_ranker.py                                        *)
(***************************************************************************)

s_not_specified == <<"n","o","t"," ","s","p","e","c","i","f","i","e","d">>

s_remote == <<"r","e","m","o","t","e">>

s_hybrid == <<"h","y","b","r","i","d">>

s_on_site == <<"o","n","-","s","i","t","e">>

s_onsite == <<"o","n","s","i","t","e">>

s_office == <<"o","f","f","i","c","e">>

\* the keywords that say a posting names a work mode at all
known_mode_keywords == {s_remote, s_hybrid, s_on_site, s_onsite, s_office}

\* characters in code-point order, for comparing strings as Python does
CodePoints == <<" ","+","-",".","/","0","1","2","3","4","5","6","7","8","9",":",
                "A","B","C","D","E","F","G","H","I","J","K","L","M",
                "N","O","P","Q","R","S","T","U","V","W","X","Y","Z",
                "a","b","c","d","e","f","g","h","i","j","k","l","m",
                "n","o","p","q","r","s","t","u","v","w","x","y","z">>

CodePoint(c) == CHOOSE i \in 1..Len(CodePoints) : CodePoints[i] = c

\* a < b for two str
StrLt(a, b) ==
    \E k \in 1..Len(b) :
        /\ \A i \in 1..(k - 1) : i <= Len(a) /\ a[i] = b[i]
        /\ (k > Len(a) \/ (k <= Len(a) /\ CodePoint(a[k]) < CodePoint(b[k])))
        /\ k - 1 <= Len(a)

(***************************************************************************)
(* JobRanker                                                               *)
(***************************************************************************)

KeepJobTypeCaseSensitive(job, job_types) ==
    LET contract_type == Get(job, "contract_type", <<>>)
    IN  \/ \E i \in 1..Len(job_types) : Contains(contract_type, job_types[i])
        \/ ~TruthySeq(contract_type)
        \/ contract_type = s_not_specified

\* the test of _filter_by_job_type on one job
KeepJobType(job, job_types) ==
    LET contract_type == Lower(Get(job, "contract_type", <<>>))
    IN  \/ \E i \in 1..Len(job_types) : Contains(contract_type, Lower(job_types[i]))
        \/ ~TruthySeq(contract_type)
        \/ contract_type = s_not_specified

_filter_by_job_type(js, job_types) ==
    IF ~TruthySeq(job_types) THEN js
    ELSE LET keep(job) == KeepJobType(job, job_types) IN SelectSeq(js, keep)

\* the test of _filter_by_work_mode with self.valid_work_modes of line 16 as the
\* keywords that say a posting names a work mode
KeepWorkModeValidModes(job, work_modes) ==
    LET description == Lower(Get(job, "description", <<>>))
        title == Lower(Get(job, "title", <<>>))
        combined_text == description \o <<" ">> \o title
    IN  \/ \E i \in 1..Len(work_modes) : Contains(combined_text, Lower(work_modes[i]))
        \/ ~\E mode \in {s_remote, s_hybrid, s_on_site, s_onsite} : Contains(combined_text, mode)

\* the test of _filter_by_work_mode on one job
KeepWorkMode(job, work_modes) ==
    LET description == Lower(Get(job, "description", <<>>))
        title == Lower(Get(job, "title", <<>>))
        combined_text == description \o <<" ">> \o title
    IN  \/ \E i \in 1..Len(work_modes) : Contains(combined_text, Lower(work_modes[i]))
        \/ ~\E mode \in known_mode_keywords : Contains(combined_text, mode)

_filter_by_work_mode(js, work_modes) ==
    IF ~TruthySeq(work_modes) THEN js
    ELSE LET keep(job) == KeepWorkMode(job, work_modes) IN SelectSeq(js, keep)

\* the days of cutoff_map
cutoff_days == [x \in {"24h", "3days", "7days", "14days", "30days"} |->
                 CASE x = "24h" -> 1 [] x = "3days" -> 3 [] x = "7days" -> 7
                   [] x = "14days" -> 14 [] x = "30days" -> 30]

\* The test of _filter_by_date on one job.  _parse_date swallows its own failures
\* and returns None, so the except branch is taken only when an aware job_date is
\* compared with the naive cutoff (TypeError): the job is then kept.
KeepDate(job, cutoff) ==
    LET created_str == Get(job, "created", <<>>)
        job_date == _parse_date(created_str)
    IN  IF job_date.ok /\ job_date.aware THEN TRUE
        ELSE IF job_date.ok /\ DateGe(job_date, cutoff) THEN TRUE
        ELSE ~TruthySeq(created_str)

_filter_by_date(js, date_posted, t) ==
    IF date_posted = "" \/ date_posted = "any" THEN js
    ELSE IF date_posted \notin DOMAIN cutoff_days THEN js
    ELSE LET cutoff == MinusDays(t, cutoff_days[date_posted])
             keep(job) == KeepDate(job, cutoff)
         IN  SelectSeq(js, keep)

KeepSalaryStrict(job, min_salary, max_salary) ==
    LET job_min == Get(job, "salary_min", None)
        job_max == Get(job, "salary_max", None)
    IN  /\ job_max # None /\ (min_salary = None \/ job_max[1] >= min_salary[1])
        /\ job_min # None /\ (max_salary = None \/ job_min[1] <= max_salary[1])

\* the test of _filter_by_salary on one job
KeepSalary(job, min_salary, max_salary) ==
    LET job_min == Get(job, "salary_min", None)
        job_max == Get(job, "salary_max", None)
    IN  IF job_min = None /\ job_max = None THEN TRUE
        ELSE /\ ~(min_salary # None /\ job_max # None /\ job_max[1] < min_salary[1])
             /\ ~(max_salary # None /\ job_min # None /\ job_min[1] > max_salary[1])

_filter_by_salary(js, min_salary, max_salary) ==
    IF min_salary = None /\ max_salary = None THEN js
    ELSE LET keep(job) == KeepSalary(job, min_salary, max_salary) IN SelectSeq(js, keep)

KeepMatchScoreInclusive(job, min_score) ==
    "match_score" \notin DOMAIN job \/ job["match_score"] >= min_score

\* the test of _filter_by_match_score on one job
KeepMatchScore(job, min_score) == Get(job, "match_score", 0) >= min_score

_filter_by_match_score(js, min_score) ==
    LET keep(job) == KeepMatchScore(job, min_score) IN SelectSeq(js, keep)

\* the test of _filter_by_distance on one job
KeepDistance(job, max_distance) ==
    LET distance == Get(job, "distance", None)
    IN  distance = None \/ distance[1] <= max_distance

_filter_by_distance(js, max_distance) ==
    LET keep(job) == KeepDistance(job, max_distance) IN SelectSeq(js, keep)

\* key=lambda x: x.get('match_score', 0)
MatchScoreKeys(js) == [i \in 1..Len(js) |-> Get(js[i], "match_score", 0)]

\* key=lambda x: x.get('created', ''): the strings compare as Python compares str;
\* a string's key is here the number of strings of the list below it, which orders
\* the list as the strings do.
CreatedKeys(js) ==
    [i \in 1..Len(js) |->
        Cardinality({j \in 1..Len(js) :
            StrLt(Get(js[j], "created", <<>>), Get(js[i], "created", <<>>))})]

\* the key of the salary sort with an absent or null salary_max below every salary
SalaryKeysAbsentLowest(js) ==
    [i \in 1..Len(js) |->
        LET v == Get(js[i], "salary_max", None) IN IF v = None THEN -1 ELSE v[1]]

\* key=lambda x: x.get('salary_max', 0) or 0
SalaryKeys(js) ==
    [i \in 1..Len(js) |->
        LET v == Get(js[i], "salary_max", Some(0)) IN IF TruthyNum(v) THEN v[1] ELSE 0]

\* the sort by score as an ascending sort that is reversed afterwards, which
\* turns the jobs of equal scores around
SortByMatchScoreTiesReversed(js) == Reverse(StableSortAsc(js, MatchScoreKeys(js)))

\* jobs.sort(key=lambda x: x.get('match_score', 0), reverse=True)
SortByMatchScore(js) == ListSortReverse(js, MatchScoreKeys(js))

_sort_jobs(js, sort_by) ==
    IF sort_by = "match_score" THEN SortByMatchScore(js)
    ELSE IF sort_by = "date" THEN ListSortReverse(js, CreatedKeys(js))
    ELSE IF sort_by = "salary" THEN ListSortReverse(js, SalaryKeys(js))
    ELSE js

\* filters.get(key) is true
Active(f, key) == key \in DOMAIN f /\ TruthySeq(f[key])

\* filters.get(key) is true, for a number
ActiveNum(f, key) == key \in DOMAIN f /\ TruthyNum(f[key])

\* Each stage of filter_and_rank, applied when its condition on the criteria holds.
StageJobType(js, f) == IF Active(f, "job_types") THEN _filter_by_job_type(js, f["job_types"]) ELSE js

StageWorkMode(js, f) == IF Active(f, "work_modes") THEN _filter_by_work_mode(js, f["work_modes"]) ELSE js

StageDate(js, f, t) ==
    IF "date_posted" \in DOMAIN f /\ f["date_posted"] # ""
    THEN _filter_by_date(js, f["date_posted"], t) ELSE js

StageSalary(js, f) ==
    IF Get(f, "salary_min", None) # None \/ Get(f, "salary_max", None) # None
    THEN _filter_by_salary(js, Get(f, "salary_min", None), Get(f, "salary_max", None))
    ELSE js

StageMatchScore(js, f) ==
    IF ActiveNum(f, "min_match_score") THEN _filter_by_match_score(js, f["min_match_score"][1]) ELSE js

StageDistanceDefaultZero(js, f) ==
    LET v == Get(f, "max_distance_miles", None)
    IN  _filter_by_distance(js, IF v = None THEN 0 ELSE v[1])

StageDistance(js, f) ==
    IF ActiveNum(f, "max_distance_miles") THEN _filter_by_distance(js, f["max_distance_miles"][1]) ELSE js

\* filter_and_rank with the match-score stage reading the caller's list, not the
\* survivors of the stages before it
FilterAndRankScoreStageOnInput(js, f, t) ==
    LET s5 == StageMatchScore(js, f)
        s6 == StageDistance(s5, f)
    IN  _sort_jobs(s6, Get(f, "sort_by", "match_score"))

\* JobRanker.filter_and_rank: a copy of the list goes through the six stages in
\* order and is sorted; the caller's list is not touched.
filter_and_rank(js, f, t) ==
    LET s1 == StageJobType(js, f)
        s2 == StageWorkMode(s1, f)
        s3 == StageDate(s2, f, t)
        s4 == StageSalary(s3, f)
        s5 == StageMatchScore(s4, f)
        s6 == StageDistance(s5, f)
    IN  _sort_jobs(s6, Get(f, "sort_by", "match_score"))

\* line 29 without the copy, filtered_jobs = jobs
FilteredJobsAliasesCallersList == TRUE

\* line 29, filtered_jobs = jobs.copy(): the list handed to the stages is the
\* caller's list object itself
FilteredJobsIsCallersList == FALSE

\* every stage hands on the list object it was given: the stages that are not
\* active do, and so does _filter_by_date for 'any' and for a window it does not
\* know (lines 110-111 and 124-125); an active stage otherwise builds a new list
StagesReturnArgument(f) ==
    /\ ~Active(f, "job_types") /\ ~Active(f, "work_modes")
    /\ ("date_posted" \in DOMAIN f /\ f["date_posted"] # "") =>
          (f["date_posted"] = "any" \/ f["date_posted"] \notin DOMAIN cutoff_days)
    /\ Get(f, "salary_min", None) = None /\ Get(f, "salary_max", None) = None
    /\ ~ActiveNum(f, "min_match_score") /\ ~ActiveNum(f, "max_distance_miles")

\* the caller's list after filter_and_rank returned: _sort_jobs sorts the list
\* object it is given in place, which changes the caller's list when that object
\* is the caller's
CallersListAfter(js, f, t) ==
    IF FilteredJobsIsCallersList /\ StagesReturnArgument(f)
    THEN _sort_jobs(js, Get(f, "sort_by", "match_score"))
    ELSE js

(***************************************************************************)
(* Inputs of the ranker: job records as the aggregator normalises them     *)
(* (every key present, the score absent until the matcher ran), and        *)
(* variations of them in one attribute at a time or in several.            *)
(***************************************************************************)

\* the largest number of jobs in a list
MaxJobs == 2

Without(d, key) == [k \in DOMAIN d \ {key} |-> d[k]]

With(d, key, v) == [k \in DOMAIN d \cup {key} |-> IF k = key THEN v ELSE d[k]]

BaseJob ==
    [job_id |-> 0, title |-> <<"D","e","v","e","l","o","p","e","r">>, company |-> <<"A","c","m","e">>, description |-> <<"B","u","i","l","d"," ","a","p","p","s">>,
     salary_min |-> None, salary_max |-> None, contract_type |-> <<"N","o","t"," ","s","p","e","c","i","f","i","e","d">>,
     created |-> <<>>, distance |-> None]

ContractTypes == {<<>>, <<"F","u","l","l","-","T","i","m","e">>, <<"p","a","r","t","-","t","i","m","e">>, <<"N","o","t"," ","s","p","e","c","i","f","i","e","d">>, <<"C","o","n","t","r","a","c","t">>, <<"f","u","l","l","-","t","i","m","e"," ","p","e","r","m","a","n","e","n","t">>}

TypeJobs ==
    {With(BaseJob, "contract_type", c) : c \in ContractTypes} \cup {Without(BaseJob, "contract_type")}

TypeFilters ==
    {[job_types |-> t] : t \in {<<>>, <<<<"f","u","l","l","-","t","i","m","e">>>>, <<<<"F","u","l","l","-","T","i","m","e">>, <<"c","o","n","t","r","a","c","t">>>>, <<<<"p","a","r","t","-","t","i","m","e">>>>}}

ModeTexts ==
    {<<<<"R","e","m","o","t","e"," ","D","e","v","e","l","o","p","e","r">>, <<"B","u","i","l","d"," ","a","p","p","s">>>>, <<<<"D","e","v","e","l","o","p","e","r">>, <<"H","y","b","r","i","d"," ","w","o","r","k","i","n","g">>>>,
     <<<<"D","e","v","e","l","o","p","e","r">>, <<"B","a","s","e","d"," ","i","n"," ","o","u","r"," ","o","f","f","i","c","e">>>>, <<<<"D","e","v","e","l","o","p","e","r">>, <<"O","n","-","s","i","t","e"," ","r","o","l","e">>>>,
     <<<<"D","e","v","e","l","o","p","e","r">>, <<"B","u","i","l","d"," ","a","p","p","s">>>>, <<<<"D","e","v","e","l","o","p","e","r">>, <<"O","n","s","i","t","e"," ","o","r"," ","r","e","m","o","t","e">>>>}

ModeJobs ==
    {With(With(BaseJob, "title", t[1]), "description", t[2]) : t \in ModeTexts}
      \cup {Without(Without(BaseJob, "title"), "description")}

ModeFilters ==
    {[work_modes |-> m] : m \in {<<>>, <<<<"r","e","m","o","t","e">>>>, <<<<"H","y","b","r","i","d">>, <<"o","n","s","i","t","e">>>>, <<<<"o","n","-","s","i","t","e">>>>}}

\* 2024-12-16 12:00:00, the datetime.now() of the request
NowPool == {[day |-> Ordinal(2024, 12, 16), sec |-> 43200, aware |-> FALSE, ok |-> TRUE]}

CreatedStrings ==
    {<<>>, <<"s","o","o","n">>, <<"2","0","2","4","-","1","2","-","1","6">>, <<"2","0","2","4","-","1","2","-","1","4">>, <<"1","0","/","1","2","/","2","0","2","4">>, <<"2","0","2","4","-","1","2","-","0","5","T","0","8",":","0","0",":","0","0">>,
     <<"2","0","2","4","-","1","0","-","0","1">>, <<"2","0","2","4","-","1","2","-","1","5","T","1","8",":","3","0",":","0","0","Z">>, <<"2","0","2","4","-","1","0","-","0","1","T","0","9",":","0","0",":","0","0","Z">>, <<"1","2","/","2","5","/","2","0","2","3">>}

DateJobs == {With(BaseJob, "created", c) : c \in CreatedStrings} \cup {Without(BaseJob, "created")}

DateFilters ==
    {[date_posted |-> d] : d \in {"", "any", "24h", "3days", "7days", "14days", "30days", "1year"}}

SalaryPairs ==
    {<<None, None>>, <<Some(30), Some(40)>>, <<None, Some(40)>>, <<Some(30), None>>,
     <<Some(50), Some(60)>>, <<Some(0), Some(0)>>}

SalaryJobs ==
    {With(With(BaseJob, "salary_min", p[1]), "salary_max", p[2]) : p \in SalaryPairs}
      \cup {Without(Without(BaseJob, "salary_min"), "salary_max")}

SalaryFilters ==
    {[salary_min |-> Some(45)], [salary_max |-> Some(25)], [salary_min |-> Some(35), salary_max |-> Some(45)],
     [salary_min |-> None, salary_max |-> Some(45)], [salary_min |-> Some(0)],
     [salary_min |-> None, salary_max |-> None], [salary_min |-> Some(41), sort_by |-> "salary"]}

ScoreJobs ==
    {With(BaseJob, "match_score", v) : v \in {0, 455, 800, 1000}} \cup {BaseJob}

ScoreFilters ==
    {[min_match_score |-> v] : v \in {None, Some(0), Some(1), Some(500), Some(800)}}

DistanceJobs ==
    {With(BaseJob, "distance", v) : v \in {None, Some(0), Some(5), Some(30)}}
      \cup {Without(BaseJob, "distance")}

DistanceFilters ==
    {[max_distance_miles |-> v] : v \in {None, Some(0), Some(10), Some(30)}}

\* jobs that differ in several attributes at once, scored, with equal scores among them
MixedJobs ==
    {[job_id |-> 0, title |-> <<"R","e","m","o","t","e"," ","D","e","v","e","l","o","p","e","r">>, company |-> <<"A","c","m","e">>, description |-> <<"B","u","i","l","d"," ","a","p","p","s">>,
      salary_min |-> Some(30), salary_max |-> Some(40), contract_type |-> <<"F","u","l","l","-","T","i","m","e">>,
      created |-> <<"2","0","2","4","-","1","2","-","1","4">>, distance |-> Some(5), match_score |-> 800],
     [job_id |-> 0, title |-> <<"D","e","v","e","l","o","p","e","r">>, company |-> <<"B","o","l","t">>, description |-> <<"B","a","s","e","d"," ","i","n"," ","o","u","r"," ","o","f","f","i","c","e">>,
      salary_min |-> Some(50), salary_max |-> Some(60), contract_type |-> <<"p","a","r","t","-","t","i","m","e">>,
      created |-> <<"2","0","2","4","-","1","0","-","0","1">>, distance |-> Some(30), match_score |-> 800],
     [job_id |-> 0, title |-> <<"D","e","v","e","l","o","p","e","r">>, company |-> <<"C","o","r","e">>, description |-> <<"B","u","i","l","d"," ","a","p","p","s">>,
      salary_min |-> None, salary_max |-> None, contract_type |-> <<"N","o","t"," ","s","p","e","c","i","f","i","e","d">>,
      created |-> <<>>, distance |-> None, match_score |-> 455],
     [job_id |-> 0, title |-> <<"D","e","v","e","l","o","p","e","r">>, company |-> <<"D","u","n","e">>, description |-> <<"H","y","b","r","i","d"," ","w","o","r","k","i","n","g">>,
      salary_min |-> None, salary_max |-> Some(70), contract_type |-> <<"C","o","n","t","r","a","c","t">>,
      created |-> <<"1","0","/","1","2","/","2","0","2","4">>, distance |-> None, match_score |-> 455],
     [job_id |-> 0, title |-> <<"D","e","v","e","l","o","p","e","r">>, company |-> <<"E","c","h","o">>, description |-> <<"B","u","i","l","d"," ","a","p","p","s">>,
      salary_min |-> None, salary_max |-> None, contract_type |-> <<>>,
      created |-> <<"2","0","2","4","-","1","2","-","1","5","T","1","8",":","3","0",":","0","0","Z">>, distance |-> Some(0)]}

NoFilters == [x \in {} |-> 0]

MixedFilters ==
    {NoFilters,
     [sort_by |-> "match_score"], [sort_by |-> "date"], [sort_by |-> "salary"], [sort_by |-> "relevance"],
     [job_types |-> <<<<"f","u","l","l","-","t","i","m","e">>>>, min_match_score |-> Some(500)],
     [work_modes |-> <<<<"r","e","m","o","t","e">>>>, date_posted |-> "7days", sort_by |-> "date"],
     [salary_min |-> Some(45), max_distance_miles |-> Some(10), sort_by |-> "salary"],
     [job_types |-> <<<<"c","o","n","t","r","a","c","t">>>>, work_modes |-> <<<<"h","y","b","r","i","d">>>>, date_posted |-> "30days",
      salary_max |-> Some(80), min_match_score |-> Some(400), max_distance_miles |-> Some(0)]}

\* the lists of at most MaxJobs jobs of a pool; job_id is the job's place in the list
RECURSIVE SeqsUpTo(_, _)
SeqsUpTo(S, n) ==
    IF n = 0 THEN {<<>>}
    ELSE LET shorter == SeqsUpTo(S, n - 1)
         IN  shorter \cup {Append(s, x) : s \in {t \in shorter : Len(t) = n - 1}, x \in S}

Numbered(js) == [i \in 1..Len(js) |-> With(js[i], "job_id", i)]

JobLists(pool) == {Numbered(js) : js \in SeqsUpTo(pool, MaxJobs)}

MaxSortJobs == 3

\* longer lists, for sorting: jobs without a score, with score 0 and with score
\* 80.0, and jobs of several salaries and dates of creation, without them too
SortJobs ==
    {BaseJob, With(BaseJob, "match_score", 0), With(BaseJob, "match_score", 800),
     Without(BaseJob, "salary_max"), With(BaseJob, "salary_max", Some(0)),
     With(With(BaseJob, "salary_max", Some(60)), "created", <<"2","0","2","4","-","1","2","-","1","4">>),
     With(With(BaseJob, "salary_max", Some(40)), "created", <<"1","0","/","1","2","/","2","0","2","4">>),
     With(BaseJob, "created", <<"2","0","2","4","-","1","2","-","1","6">>)}

SortFilters ==
    {[x \in {} |-> 0], [sort_by |-> "match_score"], [sort_by |-> "salary"], [sort_by |-> "date"]}

SortLists(pool) == {Numbered(js) : js \in SeqsUpTo(pool, MaxSortJobs)}

\* the (pool of jobs, set of criteria) pairs the ranker is run on
RankerInputs ==
    {<<TypeJobs, TypeFilters>>, <<ModeJobs, ModeFilters>>, <<DateJobs, DateFilters>>,
     <<SalaryJobs, SalaryFilters>>, <<ScoreJobs, ScoreFilters>>, <<DistanceJobs, DistanceFilters>>,
     <<MixedJobs, MixedFilters>>}

(***************************************************************************)
(* The ranker on its own: a list of jobs and a criteria record arrive, and *)
(* filter_and_rank returns the survivors in order.                         *)
(***************************************************************************)

\* {}
EmptyDict == [x \in {} |-> 0]

\* no search request is being served
SearchIdle ==
    /\ request = [cv_file |-> None, filters |-> None]
    /\ uploads = EmptyDict
    /\ response = EmptyDict

\* the vectorizer as JobMatcher.__init__ leaves it, not fitted, and no call of
\* _calculate_tfidf_similarity in progress
VectorizerFresh ==
    /\ vectorizer = EmptyDict
    /\ calls = <<>>

\* no fetch was made
AggregatorIdle ==
    /\ upstream = EmptyDict
    /\ fetches = EmptyDict

\* the applications table as _initialize_database creates it, and no call made
TrackerIdle ==
    /\ applications = <<>>
    /\ sequence = 0
    /\ locked = FALSE
    /\ call = EmptyDict
    /\ reply = EmptyDict
    /\ step = 0

InitRanker ==
    /\ pc = "rank"
    /\ now \in NowPool
    /\ \/ \E io \in RankerInputs : jobs \in JobLists(io[1]) /\ filters \in io[2]
       \/ jobs \in SortLists(SortJobs) /\ filters \in SortFilters
    /\ cv_data = NoFilters
    /\ result = <<>>
    /\ experience_years = 0
    /\ required_years = None
    /\ SearchIdle /\ VectorizerFresh /\ AggregatorIdle /\ TrackerIdle

FilterAndRank ==
    /\ pc \in {"rank", "matched"}
    /\ result' = filter_and_rank(jobs, filters, now)
    /\ jobs' = CallersListAfter(jobs, filters, now)
    /\ pc' = "ranked"
    /\ UNCHANGED <<now, cv_data, filters, experience_years, required_years>>
    /\ UNCHANGED <<search_vars, vectorizer_vars, aggregator_vars, tracker_vars>>

NextRanker == FilterAndRank

SpecRanker == InitRanker /\ [][NextRanker]_vars

(***************************************************************************)
(* Properties of the ranker                                                *)
(***************************************************************************)

Ranked == pc = "ranked"

\* the places of the input list
JobIdx == 1..Len(jobs)

\* the job is in the returned list
InResult(job) == \E p \in 1..Len(result) : result[p] = job

\* the criteria hold no key other than these and sort_by
OnlyKeys(keys) == DOMAIN filters \subseteq (keys \cup {"sort_by"})

DateWindows == {"24h", "3days", "7days", "14days", "30days"}

DateWindowGiven == "date_posted" \in DOMAIN filters /\ filters["date_posted"] \in DateWindows

Cutoff == MinusDays(now, cutoff_days[filters["date_posted"]])

CreatedOf(job) == Get(job, "created", <<>>)

\* C3 as claimed: under a date window, a job whose created string is empty, or is
\* not empty and cannot be parsed, or parses to a timestamp at or after the cutoff,
\* is kept.
C3_ParseFailureIsInclusive ==
    (Ranked /\ DateWindowGiven /\ OnlyKeys({"date_posted"})) =>
        \A i \in JobIdx :
            LET c == CreatedOf(jobs[i])
                d == _parse_date(c)
            IN  (c = <<>> \/ ~d.ok \/ (d.ok /\ ~d.aware /\ DateGe(d, Cutoff))) => InResult(jobs[i])

SalaryGiven == Get(filters, "salary_min", None) # None \/ Get(filters, "salary_max", None) # None

\* the exclusion condition of C4, in the claim's words
SalaryExcluded(job) ==
    LET job_min == Get(job, "salary_min", None)
        job_max == Get(job, "salary_max", None)
        want_min == Get(filters, "salary_min", None)
        want_max == Get(filters, "salary_max", None)
    IN  \/ (job_max # None /\ want_min # None /\ job_max[1] < want_min[1])
        \/ (job_min # None /\ want_max # None /\ job_min[1] > want_max[1])

HasNoSalary(job) == Get(job, "salary_min", None) = None /\ Get(job, "salary_max", None) = None

\* C4: when salary_min or salary_max is given, a job without salary information is
\* never excluded, and a job is excluded exactly when its salary_max is below the
\* requested minimum or its salary_min is above the requested maximum, a bound that
\* is absent on either side never being compared.
C4_SalaryFilter ==
    (Ranked /\ SalaryGiven /\ OnlyKeys({"salary_min", "salary_max"})) =>
        \A i \in JobIdx :
            /\ HasNoSalary(jobs[i]) => InResult(jobs[i])
            /\ InResult(jobs[i]) <=> ~SalaryExcluded(jobs[i])

\* C4's case: one job is excluded on its salary, one with a single bound and one
\* without salary information are kept.
C4_Witness ==
    /\ Ranked /\ SalaryGiven /\ OnlyKeys({"salary_min", "salary_max"})
    /\ \E i, j \in JobIdx :
        /\ SalaryExcluded(jobs[i]) /\ ~InResult(jobs[i])
        /\ ~HasNoSalary(jobs[j]) /\ InResult(jobs[j])
        /\ (Get(jobs[j], "salary_min", None) = None \/ Get(jobs[j], "salary_max", None) = None)

DistanceGiven == Get(filters, "max_distance_miles", None) # None

DistanceOf(job) == Get(job, "distance", None)

\* C5 as claimed: when max_distance_miles is present, whatever its value, every
\* returned job has no distance or a distance within it, and a job without a
\* distance is not excluded by the filter.
C5_DistanceBoundAlwaysApplied ==
    (Ranked /\ DistanceGiven) =>
        /\ \A p \in 1..Len(result) :
              DistanceOf(result[p]) = None \/ DistanceOf(result[p])[1] <= filters["max_distance_miles"][1]
        /\ OnlyKeys({"max_distance_miles"}) =>
              \A i \in JobIdx : DistanceOf(jobs[i]) = None => InResult(jobs[i])

ScoreOf(job) == Get(job, "match_score", 0)

\* the returned list is in non-increasing score order and jobs of equal score are in
\* the order of the input list (job_id is the place in the input)
SortedDescStable(s) ==
    \A p, q \in 1..Len(s) :
        p < q => \/ ScoreOf(s[p]) > ScoreOf(s[q])
                 \/ (ScoreOf(s[p]) = ScoreOf(s[q]) /\ s[p]["job_id"] < s[q]["job_id"])

\* every job of the input is in s exactly once, and nothing else is
SameJobs(s) ==
    /\ Len(s) = Len(jobs)
    /\ \A i \in JobIdx : Cardinality({p \in 1..Len(s) : s[p] = jobs[i]}) = 1

\* the test a criteria field applies to a job, for a field that is present
RejectedBy(job, key) ==
    CASE key = "job_types" -> Active(filters, key) /\ ~KeepJobType(job, filters[key])
      [] key = "work_modes" -> Active(filters, key) /\ ~KeepWorkMode(job, filters[key])
      [] key = "date_posted" -> DateWindowGiven /\ ~KeepDate(job, Cutoff)
      [] key \in {"salary_min", "salary_max"} -> filters[key] # None /\ SalaryExcluded(job)
      [] key = "min_match_score" -> filters[key] # None /\ ScoreOf(job) < filters[key][1]
      [] key = "max_distance_miles" ->
            filters[key] # None /\ DistanceOf(job) # None /\ DistanceOf(job)[1] > filters[key][1]
      [] OTHER -> FALSE

\* C7: with an empty criteria record every job is returned exactly once, in score
\* order with ties in input order; and whatever the criteria, a job is removed only
\* by a field that is present in them.
C7_EmptyCriteriaKeepsAll ==
    Ranked =>
        /\ filters = NoFilters => (SameJobs(result) /\ SortedDescStable(result))
        /\ \A i \in JobIdx :
              ~InResult(jobs[i]) => \E key \in DOMAIN filters : RejectedBy(jobs[i], key)

\* C7's case: an empty criteria record and a list in which a job of a higher score
\* comes after one of a lower score; every job comes back.
C7_Witness ==
    /\ Ranked /\ filters = NoFilters /\ Len(jobs) >= 2
    /\ \E i, j \in JobIdx : i < j /\ ScoreOf(jobs[i]) < ScoreOf(jobs[j])
    /\ Len(result) = Len(jobs)

JobTypesGiven == Active(filters, "job_types")

ContractTypeOf(job) == Lower(Get(job, "contract_type", <<>>))

\* the keeping condition of C8, in the claim's words
JobTypeKept(job) ==
    \/ \E k \in 1..Len(filters["job_types"]) :
          Contains(ContractTypeOf(job), Lower(filters["job_types"][k]))
    \/ ContractTypeOf(job) = <<>>
    \/ ContractTypeOf(job) = Lower(<<"N","o","t"," ","s","p","e","c","i","f","i","e","d">>)

\* C8: with job_types not empty, a job is kept if and only if its contract_type,
\* lower-cased, contains a requested type, lower-cased, or is empty, missing or
\* "not specified"; with ["full-time"], "" and "Full-Time" are kept and "part-time"
\* is not.
C8_JobTypeFilter ==
    (Ranked /\ JobTypesGiven /\ OnlyKeys({"job_types"})) =>
        /\ \A i \in JobIdx : InResult(jobs[i]) <=> JobTypeKept(jobs[i])
        /\ filters["job_types"] = <<<<"f","u","l","l","-","t","i","m","e">>>> =>
              \A i \in JobIdx :
                  /\ Get(jobs[i], "contract_type", <<>>) \in {<<>>, <<"F","u","l","l","-","T","i","m","e">>} => InResult(jobs[i])
                  /\ Get(jobs[i], "contract_type", <<>>) = <<"p","a","r","t","-","t","i","m","e">> => ~InResult(jobs[i])

\* C8's case: ["full-time"] against a "Full-Time" job, which is kept, and a
\* "part-time" job, which is not.
C8_Witness ==
    /\ Ranked /\ JobTypesGiven /\ filters["job_types"] = <<<<"f","u","l","l","-","t","i","m","e">>>>
    /\ \E i, j \in JobIdx :
        /\ Get(jobs[i], "contract_type", <<>>) = <<"F","u","l","l","-","T","i","m","e">> /\ InResult(jobs[i])
        /\ Get(jobs[j], "contract_type", <<>>) = <<"p","a","r","t","-","t","i","m","e">> /\ ~InResult(jobs[j])

MinScoreGiven == Get(filters, "min_match_score", None) # None

\* C9: when min_match_score is present, every returned job has a score at or above
\* it, a job without a score counting as 0.
C9_MatchScoreFloor ==
    (Ranked /\ MinScoreGiven) =>
        \A p \in 1..Len(result) : ScoreOf(result[p]) >= filters["min_match_score"][1]

\* C9's case: a positive floor, an unscored job that is dropped and a scored one
\* that is kept.
C9_Witness ==
    /\ Ranked /\ MinScoreGiven /\ filters["min_match_score"][1] > 0
    /\ \E i, j \in JobIdx :
        /\ "match_score" \notin DOMAIN jobs[i] /\ ~InResult(jobs[i])
        /\ "match_score" \in DOMAIN jobs[j] /\ InResult(jobs[j])

(***************************************************************************)
(* JobMatcher: the experience score                                        *)
(***************************************************************************)

\* the largest number of years drawn for the experience score
MaxYears == 12

ExperienceScoreStrictWindow(have, need) ==
    IF need = None THEN 75
    ELSE IF have >= need[1]
         THEN (IF have < need[1] + 3 THEN 100 ELSE 85)
         ELSE LET gap == need[1] - have
              IN  IF gap <= 1 THEN 80 ELSE IF gap <= 2 THEN 60 ELSE 40

\* _calculate_experience_match after the two extractions: have is experience_years,
\* need is required_years (None when it cannot be determined)
ExperienceScore(have, need) ==
    IF need = None THEN 75
    ELSE IF have >= need[1]
         THEN (IF have <= need[1] + 3 THEN 100 ELSE 85)
         ELSE LET gap == need[1] - have
              IN  IF gap <= 1 THEN 80 ELSE IF gap <= 2 THEN 60 ELSE 40

InitExperience ==
    /\ pc = "experience"
    /\ experience_years \in 0..MaxYears
    /\ required_years \in {None} \cup {Some(n) : n \in 0..MaxYears}
    /\ now \in NowPool
    /\ cv_data = NoFilters
    /\ jobs = <<>>
    /\ filters = NoFilters
    /\ result = <<>>
    /\ SearchIdle /\ VectorizerFresh /\ AggregatorIdle /\ TrackerIdle

CalculateExperienceMatch ==
    /\ pc = "experience"
    /\ result' = <<ExperienceScore(experience_years, required_years)>>
    /\ pc' = "experience_scored"
    /\ UNCHANGED <<now, cv_data, jobs, filters, experience_years, required_years>>
    /\ UNCHANGED <<search_vars, vectorizer_vars, aggregator_vars, tracker_vars>>

NextExperience == CalculateExperienceMatch

SpecExperience == InitExperience /\ [][NextExperience]_vars

\* C10: the experience score is 75 when need is undetermined, 100 when
\* need <= have <= need + 3, 85 when have > need + 3, and for have < need it is 80
\* when need - have <= 1, 60 when need - have = 2 and 40 when need - have > 2;
\* have = 5, need = 3 gives 100 and have = 2, need = 5 gives 40.
C10_ExperienceScore ==
    pc = "experience_scored" =>
        LET have == experience_years
            need == required_years
            score == result[1]
        IN  /\ need = None => score = 75
            /\ need # None =>
                /\ (need[1] <= have /\ have <= need[1] + 3) => score = 100
                /\ have > need[1] + 3 => score = 85
                /\ (have < need[1] /\ need[1] - have <= 1) => score = 80
                /\ (have < need[1] /\ need[1] - have = 2) => score = 60
                /\ (have < need[1] /\ need[1] - have > 2) => score = 40
                /\ (have = 5 /\ need[1] = 3) => score = 100
                /\ (have = 2 /\ need[1] = 5) => score = 40

\* C10's case: the score of have = 5 against need = 2, the upper edge of the window
C10_Witness ==
    /\ pc = "experience_scored"
    /\ experience_years = 5 /\ required_years = Some(2) /\ result = <<100>>

(***************************************************************************)
(* Regular expressions of job_matcher.py, matched by hand on a str.         *)
(* A match is [ok, n, end]: whether it matched, the number captured, and    *)
(* the place after its last character.                                      *)
(* Only({e : x \in {v}}) is e with x standing for the value v.              *)
(***************************************************************************)

\* the element of a set of one element
Only(S) == CHOOSE x \in S : TRUE

\* the least element of a set of numbers that is not empty
Least(S) == CHOOSE x \in S : \A y \in S : x <= y

\* \s
Whitespace == {" ", "\t", "\n"}

NoMatch == [ok |-> FALSE, n |-> 0, end |-> 0]

\* s[i:].startswith(lit)
StartsAt(s, i, lit) == i >= 1 /\ i + Len(lit) - 1 <= Len(s) /\ SubSeq(s, i, i + Len(lit) - 1) = lit

\* the place after \s* matched from i
SkipWs(s, i) ==
    Only({j \in i..(Len(s) + 1) :
            /\ \A k \in i..(j - 1) : s[k] \in Whitespace
            /\ j = Len(s) + 1 \/ s[j] \notin Whitespace})

\* the place after \d* matched from i
SkipDigits(s, i) ==
    Only({j \in i..(Len(s) + 1) :
            /\ \A k \in i..(j - 1) : IsDigit(s[k])
            /\ j = Len(s) + 1 \/ ~IsDigit(s[j])})

\* (\d+)\+?\s*years? matched at i
YearsAt(s, i) ==
    IF ~(i <= Len(s) /\ IsDigit(s[i])) THEN NoMatch
    ELSE Only({
           Only({ IF StartsAt(s, y, <<"y","e","a","r">>)
                  THEN [ok |-> TRUE, n |-> ParseInt(SubSeq(s, i, d - 1)),
                        end |-> IF y + 4 <= Len(s) /\ s[y + 4] = "s" THEN y + 5 ELSE y + 4]
                  ELSE NoMatch
                  : y \in {SkipWs(s, IF d <= Len(s) /\ s[d] = "+" THEN d + 1 ELSE d)} })
           : d \in {SkipDigits(s, i)} })

\* \s*(?:of\s*)?(?:experience|exp) matched from w: the place after "exp", from
\* where a following .*? may start, or 0
ExperienceWordAt(s, w) ==
    Only({ IF StartsAt(s, e, <<"e","x","p">>) THEN e + 3 ELSE 0
           : e \in { IF StartsAt(s, w, <<"o","f">>) /\ StartsAt(s, SkipWs(s, w + 2), <<"e","x","p">>)
                     THEN SkipWs(s, w + 2) ELSE w } })

\* (\d+)\+?\s*years?\s*(?:of\s*)?(?:experience|exp) matched at i; end is the place
\* after "exp"
YearsExperienceAt(s, i) ==
    Only({ IF ~m.ok THEN NoMatch
           ELSE Only({ IF e = 0 THEN NoMatch ELSE [ok |-> TRUE, n |-> m.n, end |-> e]
                       : e \in {ExperienceWordAt(s, SkipWs(s, m.end))} })
           : m \in {YearsAt(s, i)} })

\* the place after (?:experience|exp) matched at e
AfterExp(s, e) == IF StartsAt(s, e, <<"e","x","p","e","r","i","e","n","c","e">>) THEN e + 10 ELSE e + 3

\* .*?(\d+)\+?\s*years? matched from i: the match at the first place on the line
\* where the years pattern matches
FirstYearsFrom(s, i) ==
    Only({ IF hits = {} THEN NoMatch ELSE Only({YearsAt(s, p) : p \in hits})
           : hits \in {{p \in i..Len(s) :
                          /\ YearsAt(s, p).ok
                          /\ \A k \in i..(p - 1) : s[k] # "\n" /\ ~YearsAt(s, k).ok}} })

RECURSIVE FindAllYearsExperience(_, _)
\* re.findall(r'(\d+)\+?\s*years?\s*(?:of\s*)?(?:experience|exp)', s) from place i
FindAllYearsExperience(s, i) ==
    Only({ IF hits = {} THEN <<>>
           ELSE Only({ <<m.n>> \o FindAllYearsExperience(s, AfterExp(s, m.end - 3))
                       : m \in {YearsExperienceAt(s, Least(hits))} })
           : hits \in {{p \in i..Len(s) : YearsExperienceAt(s, p).ok}} })

RECURSIVE FindAllExperienceYears(_, _)
\* re.findall(r'(?:experience|exp).*?(\d+)\+?\s*years?', s) from place i
FindAllExperienceYears(s, i) ==
    Only({ IF hits = {} THEN <<>>
           ELSE Only({ <<m.n>> \o FindAllExperienceYears(s, m.end)
                       : m \in {FirstYearsFrom(s, Least(hits) + 3)} })
           : hits \in {{p \in i..Len(s) : StartsAt(s, p, <<"e","x","p">>) /\ FirstYearsFrom(s, p + 3).ok}} })

\* the year a range ends in when it ends in 'present' or 'current'
present_year == 2024

FourDigitsAt(s, i) == i + 3 <= Len(s) /\ AllDigits(SubSeq(s, i, i + 3))

\* U+2013 EN DASH of the date-range pattern; strings of this module are ASCII,
\* so it is written as a character no other literal of the program uses
en_dash == "~"

\* \s*(\d{4}|present|current) matched from h, for a range that starts in year start
DateRangeEndAt(s, h, start) ==
    Only({ IF FourDigitsAt(s, e)
           THEN [ok |-> TRUE, n |-> ParseInt(SubSeq(s, e, e + 3)) - start, end |-> e + 4]
           ELSE IF StartsAt(s, e, <<"p","r","e","s","e","n","t">>) \/ StartsAt(s, e, <<"c","u","r","r","e","n","t">>)
                THEN [ok |-> TRUE, n |-> present_year - start, end |-> e + 7]
           ELSE NoMatch
           : e \in {SkipWs(s, h)} })

\* (\d{4})\s*[-en_dash]\s*(\d{4}|present|current) matched at i; n is end - start
DateRangeAt(s, i) ==
    IF ~FourDigitsAt(s, i) THEN NoMatch
    ELSE Only({ IF h <= Len(s) /\ s[h] \in {"-", en_dash}
                THEN DateRangeEndAt(s, h + 1, ParseInt(SubSeq(s, i, i + 3)))
                ELSE NoMatch
                : h \in {SkipWs(s, i + 4)} })

RECURSIVE FindAllDateRanges(_, _)
\* the end - start of every match of re.findall on the date-range pattern, from i
FindAllDateRanges(s, i) ==
    Only({ IF hits = {} THEN <<>>
           ELSE Only({ <<m.n>> \o FindAllDateRanges(s, m.end)
                       : m \in {DateRangeAt(s, Least(hits))} })
           : hits \in {{p \in i..Len(s) : DateRangeAt(s, p).ok}} })

RECURSIVE SeqMax(_)
SeqMax(q) ==
    IF Len(q) = 1 THEN q[1]
    ELSE Only({IF q[1] >= r THEN q[1] ELSE r : r \in {SeqMax(Tail(q))}})

RECURSIVE SeqSum(_)
SeqSum(q) == IF Len(q) = 0 THEN 0 ELSE q[1] + SeqSum(Tail(q))

\* lines 202-203 returning the first number found instead of the largest
YearsOrDateRangesFirstMatch(t, years) ==
    IF Len(years) > 0 THEN years[1]
    ELSE Only({ IF Len(date_ranges) = 0 THEN 2
                ELSE Only({IF total_years > 1 THEN total_years ELSE 1
                           : total_years \in {SeqSum(date_ranges)}})
                : date_ranges \in {FindAllDateRanges(t, 1)} })

\* the rest of _extract_years_of_experience, for the years the two patterns found
\* in the lower-cased text t
YearsOrDateRanges(t, years) ==
    IF Len(years) > 0 THEN SeqMax(years)
    ELSE Only({ IF Len(date_ranges) = 0 THEN 2
                ELSE Only({IF total_years > 1 THEN total_years ELSE 1
                           : total_years \in {SeqSum(date_ranges)}})
                : date_ranges \in {FindAllDateRanges(t, 1)} })

\* JobMatcher._extract_years_of_experience
_extract_years_of_experience(text) ==
    Only({ Only({ YearsOrDateRanges(t, years)
                  : years \in {FindAllYearsExperience(t, 1) \o FindAllExperienceYears(t, 1)} })
           : t \in {Lower(text)} })

requirement_words == {<<"r","e","q","u","i","r","e","d">>, <<"n","e","e","d","e","d">>, <<"m","i","n","i","m","u","m">>}

\* .*?(?:required|needed|minimum) matches from i
KeywordOnLineFrom(s, i) ==
    \E p \in i..Len(s) :
        /\ \E w \in requirement_words : StartsAt(s, p, w)
        /\ \A k \in i..(p - 1) : s[k] # "\n"

\* pattern 1 of _extract_required_years matched at i
RequiredPattern1At(s, i) ==
    Only({ IF m.ok /\ KeywordOnLineFrom(s, m.end) THEN m ELSE NoMatch
           : m \in {YearsExperienceAt(s, i)} })

\* pattern 2 of _extract_required_years matched at i
RequiredPattern2At(s, i) ==
    Only({ IF found = {} THEN NoMatch ELSE Only({FirstYearsFrom(s, i + Len(w)) : w \in found})
           : found \in {{w \in requirement_words : StartsAt(s, i, w)}} })

\* pattern 3 of _extract_required_years matched at i
RequiredPattern3At(s, i) ==
    Only({ IF ~m.ok THEN NoMatch
           ELSE Only({ IF \E x \in {<<"i","n">>, <<"o","f">>, <<"w","i","t","h">>} : StartsAt(s, w, x) THEN m ELSE NoMatch
                       : w \in {SkipWs(s, m.end)} })
           : m \in {YearsAt(s, i)} })

RequiredPatternAt(k, s, i) ==
    IF k = 1 THEN RequiredPattern1At(s, i)
    ELSE IF k = 2 THEN RequiredPattern2At(s, i)
    ELSE RequiredPattern3At(s, i)

\* re.search(pattern k, s): the leftmost match
Search(k, s) ==
    Only({ IF hits = {} THEN NoMatch
           ELSE RequiredPatternAt(k, s, Least(hits))
           : hits \in {{i \in 1..Len(s) : RequiredPatternAt(k, s, i).ok}} })

\* lines 225-238 with the seniority keywords looked for before the patterns
SeniorityOrFirstPattern(t, m1, m2, m3) ==
    IF \E w \in {<<"s","e","n","i","o","r">>, <<"l","e","a","d">>, <<"p","r","i","n","c","i","p","a","l">>} : Contains(t, w) THEN Some(5)
    ELSE IF \E w \in {<<"m","i","d","-","l","e","v","e","l">>, <<"i","n","t","e","r","m","e","d","i","a","t","e">>} : Contains(t, w) THEN Some(3)
    ELSE IF \E w \in {<<"j","u","n","i","o","r">>, <<"e","n","t","r","y">>, <<"g","r","a","d","u","a","t","e">>} : Contains(t, w) THEN Some(1)
    ELSE IF m1.ok THEN Some(m1.n)
    ELSE IF m2.ok THEN Some(m2.n)
    ELSE IF m3.ok THEN Some(m3.n)
    ELSE None

\* the rest of _extract_required_years, for the matches of the three patterns in
\* the lower-cased text t
FirstPatternOrSeniority(t, m1, m2, m3) ==
    IF m1.ok THEN Some(m1.n)
    ELSE IF m2.ok THEN Some(m2.n)
    ELSE IF m3.ok THEN Some(m3.n)
    ELSE IF \E w \in {<<"s","e","n","i","o","r">>, <<"l","e","a","d">>, <<"p","r","i","n","c","i","p","a","l">>} : Contains(t, w) THEN Some(5)
    ELSE IF \E w \in {<<"m","i","d","-","l","e","v","e","l">>, <<"i","n","t","e","r","m","e","d","i","a","t","e">>} : Contains(t, w) THEN Some(3)
    ELSE IF \E w \in {<<"j","u","n","i","o","r">>, <<"e","n","t","r","y">>, <<"g","r","a","d","u","a","t","e">>} : Contains(t, w) THEN Some(1)
    ELSE None

\* JobMatcher._extract_required_years: None when it cannot be determined
_extract_required_years(job_text) ==
    Only({ Only({ FirstPatternOrSeniority(t, m[1], m[2], m[3])
                  : m \in {[k \in 1..3 |-> Search(k, t)]} })
           : t \in {Lower(job_text)} })

(***************************************************************************)
(* Text preparation of JobMatcher and the TfidfVectorizer it is built       *)
(* with: lower-casing, tokens of two or more word characters, English stop  *)
(* words removed, terms are the uni-grams and bi-grams of what remains.     *)
(***************************************************************************)

RECURSIVE Join(_, _)
\* sep.join(parts)
Join(parts, sep) ==
    IF Len(parts) = 0 THEN <<>>
    ELSE IF Len(parts) = 1 THEN parts[1]
    ELSE parts[1] \o sep \o Join(Tail(parts), sep)

\* the place of the ">" that ends a tag opened at p: the first ">" after p, with
\* one character or more before it
TagEnds(s, p) ==
    {j \in (p + 2)..Len(s) : s[j] = ">" /\ \A k \in (p + 1)..(j - 1) : s[k] # ">"}

RECURSIVE StripTags(_, _)
\* re.sub(r'<[^>]+>', '', s) from place i
StripTags(s, i) ==
    Only({ IF tags = {} THEN SubSeq(s, i, Len(s))
           ELSE SubSeq(s, i, Least(tags) - 1) \o StripTags(s, Only(TagEnds(s, Least(tags))) + 1)
           : tags \in {{p \in i..Len(s) : s[p] = "<" /\ TagEnds(s, p) # {}}} })

\* a null where the program expects a str
NoneStr == <<"None">>

\* truth value of an optional str: None and '' are false
TruthyStr(s) == s # NoneStr /\ Len(s) > 0

\* text_parts of _prepare_cv_text
CvTextParts(cv, skills_text) ==
       (IF TruthyStr(Get(cv, "summary", <<>>)) THEN <<cv.summary>> ELSE <<>>)
    \o Get(cv, "experience", <<>>)
    \o (IF TruthySeq(Get(cv, "skills", <<>>)) THEN <<skills_text, skills_text>> ELSE <<>>)
    \o Get(cv, "education", <<>>)

\* JobMatcher._prepare_cv_text
_prepare_cv_text(cv) ==
    Only({ Join(text_parts, <<" ">>)
           : text_parts \in {CvTextParts(cv, Join(Get(cv, "skills", <<>>), <<" ">>))} })

\* JobMatcher._prepare_job_text
_prepare_job_text(job) ==
    Only({ Join(text_parts, <<" ">>)
           : text_parts \in {
                  (IF TruthyStr(Get(job, "title", <<>>)) THEN <<job.title, job.title>> ELSE <<>>)
               \o (IF TruthyStr(Get(job, "description", <<>>))
                    THEN <<StripTags(job.description, 1)>> ELSE <<>>)
               \o (IF TruthyStr(Get(job, "company", <<>>)) THEN <<job.company>> ELSE <<>>)} })

\* \w
IsWordChar(c) ==
    \/ \E i \in 1..Len(LowerChars) : c = LowerChars[i] \/ c = UpperChars[i]
    \/ IsDigit(c)
    \/ c = "_"

\* the place after \w* matched from i
SkipWord(s, i) ==
    Only({j \in i..(Len(s) + 1) :
            /\ \A k \in i..(j - 1) : IsWordChar(s[k])
            /\ j = Len(s) + 1 \/ ~IsWordChar(s[j])})

RECURSIVE Tokenize(_, _)
\* re.findall(r'(?u)\b\w\w+\b', s) from place i: the runs of word characters
\* that are two characters or longer
Tokenize(s, i) ==
    Only({ IF starts = {} THEN <<>>
           ELSE Only({ (IF e - Least(starts) >= 2 THEN <<SubSeq(s, Least(starts), e - 1)>> ELSE <<>>)
                         \o Tokenize(s, e)
                       : e \in {SkipWord(s, Least(starts))} })
           : starts \in {{p \in i..Len(s) : IsWordChar(s[p])}} })

\* stop_words='english': the words of scikit-learn's ENGLISH_STOP_WORDS that a
\* token can be (two characters or more) and that are five characters or
\* fewer; the documents considered below hold none of its longer words
ENGLISH_STOP_WORDS ==
    { <<"a","b","o","u","t">>, <<"a","b","o","v","e">>, <<"a","f","t","e","r">>, <<"a","g","a","i","n">>, <<"a","l","l">>, <<"a","l","o","n","e">>, <<"a","l","o","n","g">>, <<"a","l","s","o">>, <<"a","m">>,
      <<"a","m","o","n","g">>, <<"a","n">>, <<"a","n","d">>, <<"a","n","y">>, <<"a","r","e">>, <<"a","s">>, <<"a","t">>, <<"b","a","c","k">>, <<"b","e">>, <<"b","e","e","n">>,
      <<"b","e","i","n","g">>, <<"b","e","l","o","w">>, <<"b","i","l","l">>, <<"b","o","t","h">>, <<"b","u","t">>, <<"b","y">>, <<"c","a","l","l">>, <<"c","a","n">>, <<"c","a","n","t">>, <<"c","o">>, <<"c","o","n">>,
      <<"c","o","u","l","d">>, <<"c","r","y">>, <<"d","e">>, <<"d","o">>, <<"d","o","n","e">>, <<"d","o","w","n">>, <<"d","u","e">>, <<"e","a","c","h">>, <<"e","g">>, <<"e","i","g","h","t">>,
      <<"e","l","s","e">>, <<"e","m","p","t","y">>, <<"e","t","c">>, <<"e","v","e","n">>, <<"e","v","e","r">>, <<"e","v","e","r","y">>, <<"f","e","w">>, <<"f","i","f","y">>, <<"f","i","l","l">>, <<"f","i","n","d">>,
      <<"f","i","r","e">>, <<"f","i","r","s","t">>, <<"f","i","v","e">>, <<"f","o","r">>, <<"f","o","r","t","y">>, <<"f","o","u","n","d">>, <<"f","o","u","r">>, <<"f","r","o","m">>, <<"f","r","o","n","t">>,
      <<"f","u","l","l">>, <<"g","e","t">>, <<"g","i","v","e">>, <<"g","o">>, <<"h","a","d">>, <<"h","a","s">>, <<"h","a","s","n","t">>, <<"h","a","v","e">>, <<"h","e">>, <<"h","e","n","c","e">>, <<"h","e","r">>,
      <<"h","e","r","e">>, <<"h","e","r","s">>, <<"h","i","m">>, <<"h","i","s">>, <<"h","o","w">>, <<"i","e">>, <<"i","f">>, <<"i","n">>, <<"i","n","c">>, <<"i","n","t","o">>, <<"i","s">>,
      <<"i","t">>, <<"i","t","s">>, <<"k","e","e","p">>, <<"l","a","s","t">>, <<"l","e","a","s","t">>, <<"l","e","s","s">>, <<"l","t","d">>, <<"m","a","d","e">>, <<"m","a","n","y">>, <<"m","a","y">>,
      <<"m","e">>, <<"m","i","l","l">>, <<"m","i","n","e">>, <<"m","o","r","e">>, <<"m","o","s","t">>, <<"m","o","v","e">>, <<"m","u","c","h">>, <<"m","u","s","t">>, <<"m","y">>, <<"n","a","m","e">>,
      <<"n","e","v","e","r">>, <<"n","e","x","t">>, <<"n","i","n","e">>, <<"n","o">>, <<"n","o","n","e">>, <<"n","o","o","n","e">>, <<"n","o","r">>, <<"n","o","t">>, <<"n","o","w">>, <<"o","f">>,
      <<"o","f","f">>, <<"o","f","t","e","n">>, <<"o","n">>, <<"o","n","c","e">>, <<"o","n","e">>, <<"o","n","l","y">>, <<"o","n","t","o">>, <<"o","r">>, <<"o","t","h","e","r">>, <<"o","u","r">>,
      <<"o","u","r","s">>, <<"o","u","t">>, <<"o","v","e","r">>, <<"o","w","n">>, <<"p","a","r","t">>, <<"p","e","r">>, <<"p","u","t">>, <<"r","e">>, <<"s","a","m","e">>, <<"s","e","e">>,
      <<"s","e","e","m">>, <<"s","e","e","m","s">>, <<"s","h","e">>, <<"s","h","o","w">>, <<"s","i","d","e">>, <<"s","i","n","c","e">>, <<"s","i","x">>, <<"s","i","x","t","y">>, <<"s","o">>, <<"s","o","m","e">>,
      <<"s","t","i","l","l">>, <<"s","u","c","h">>, <<"t","a","k","e">>, <<"t","e","n">>, <<"t","h","a","n">>, <<"t","h","a","t">>, <<"t","h","e">>, <<"t","h","e","i","r">>, <<"t","h","e","m">>, <<"t","h","e","n">>,
      <<"t","h","e","r","e">>, <<"t","h","e","s","e">>, <<"t","h","e","y">>, <<"t","h","i","c","k">>, <<"t","h","i","n">>, <<"t","h","i","r","d">>, <<"t","h","i","s">>, <<"t","h","o","s","e">>, <<"t","h","r","e","e">>,
      <<"t","h","r","u">>, <<"t","h","u","s">>, <<"t","o">>, <<"t","o","o">>, <<"t","o","p">>, <<"t","w","o">>, <<"u","n">>, <<"u","n","d","e","r">>, <<"u","n","t","i","l">>, <<"u","p">>, <<"u","p","o","n">>,
      <<"u","s">>, <<"v","e","r","y">>, <<"v","i","a">>, <<"w","a","s">>, <<"w","e">>, <<"w","e","l","l">>, <<"w","e","r","e">>, <<"w","h","a","t">>, <<"w","h","e","n">>, <<"w","h","e","r","e">>,
      <<"w","h","i","c","h">>, <<"w","h","i","l","e">>, <<"w","h","o">>, <<"w","h","o","l","e">>, <<"w","h","o","m">>, <<"w","h","o","s","e">>, <<"w","h","y">>, <<"w","i","l","l">>, <<"w","i","t","h">>, <<"w","o","u","l","d">>,
      <<"y","e","t">>, <<"y","o","u">>, <<"y","o","u","r">>, <<"y","o","u","r","s">> }

\* the analyzer of the vectorizer: the tokens of a document, stop words removed
Analyze(doc) ==
    LET keep(t) == t \notin ENGLISH_STOP_WORDS
    IN  Only({SelectSeq(Tokenize(lowered, 1), keep) : lowered \in {Lower(doc)}})

\* ngram_range=(1, 2): a term is a sequence of one token or of two that follow
\* each other
Terms(tokens) ==
    {<<tokens[i]>> : i \in 1..Len(tokens)} \cup {<<tokens[i], tokens[i + 1]>> : i \in 1..(Len(tokens) - 1)}

\* how often a term occurs in a document
TermCount(term, tokens) ==
    Cardinality({i \in 1..(Len(tokens) - Len(term) + 1) : SubSeq(tokens, i, i + Len(term) - 1) = term})

(***************************************************************************)
(* Scores are floats in the program; here a score is the exact fraction     *)
(* [num, den] in lowest terms, and a stored (rounded) score is an Int in    *)
(* tenths.  The one irrational the program meets is the cosine similarity,  *)
(* which is kept to a hundredth of a percent.                               *)
(***************************************************************************)

RECURSIVE GCD(_, _)
GCD(a, b) == IF b = 0 THEN a ELSE GCD(b, a % b)

Rat(n, d) == Only({[num |-> n \div g, den |-> d \div g] : g \in {GCD(n, d)}})

\* round(x, 1) in tenths, for x >= 0: to the nearest tenth, a tie to the even one
Round1(x) ==
    LET q == (10 * x.num) \div x.den
        r == (10 * x.num) % x.den
    IN  IF 2 * r < x.den THEN q
        ELSE IF 2 * r > x.den THEN q + 1
        ELSE IF q % 2 = 0 THEN q ELSE q + 1

RECURSIVE LeqFrac(_, _, _, _)
\* a/b <= c/d for positive b and d, by comparing the continued fractions, so
\* that no product is formed
LeqFrac(a, b, c, d) ==
    IF a \div b # c \div d THEN a \div b < c \div d
    ELSE IF a % b = 0 THEN TRUE
    ELSE IF c % d = 0 THEN FALSE
    ELSE LeqFrac(d, c % d, b, a % b)

RECURSIVE SumSquares(_, _)
\* the sum over the terms of S of the square of their count in the document
SumSquares(S, tokens) ==
    IF S = {} THEN 0
    ELSE Only({ TermCount(t, tokens) * TermCount(t, tokens) + SumSquares(S \ {t}, tokens)
                : t \in {CHOOSE x \in S : TRUE} })

RECURSIVE SumProducts(_, _, _)
\* the sum over the terms of S of the product of their counts in the two documents
SumProducts(S, a, b) ==
    IF S = {} THEN 0
    ELSE Only({ TermCount(t, a) * TermCount(t, b) + SumProducts(S \ {t}, a, b)
                : t \in {CHOOSE x \in S : TRUE} })

max_features == 500

\* max_features=500: the vocabulary keeps the terms that occur most often in the
\* two documents together; which of several terms of equal count is kept is not
\* determined here
LimitFeatures(vocabulary, a, b) ==
    IF Cardinality(vocabulary) <= max_features THEN vocabulary
    ELSE CHOOSE kept \in SUBSET vocabulary :
            /\ Cardinality(kept) = max_features
            /\ \A t \in kept, u \in vocabulary \ kept :
                  TermCount(t, a) + TermCount(t, b) >= TermCount(u, a) + TermCount(u, b)

RECURSIVE CosineFloor(_, _, _, _, _)
\* the largest x of lo..hi with x / 10000 <= dot / sqrt(na * nb)
CosineFloor(lo, hi, dot, na, nb) ==
    IF lo = hi THEN lo
    ELSE Only({ IF LeqFrac(mid * na, dot * 10000, dot * 10000, mid * nb)
                THEN CosineFloor(mid, hi, dot, na, nb)
                ELSE CosineFloor(lo, mid - 1, dot, na, nb)
                : mid \in {(lo + hi + 1) \div 2} })

\* cosine_similarity of the two rows, times 100.  A term's weight is its count
\* times its idf, idf = ln(3 / (1 + df)) + 1, which is 1 for a term of both
\* documents and 1.405465... for a term of one; the square of the latter is
\* taken as 160/81 = 1.975308... (1.975332...), so 81 times the squared norm of
\* a row is the na (nb) below.
Cosine(a, b, shared, only_a, only_b) ==
    Only({ IF dot = 0 THEN Rat(0, 1)
           ELSE Rat(CosineFloor(0, 10000, dot,
                        81 * SumSquares(shared, a) + 160 * SumSquares(only_a, a),
                        81 * SumSquares(shared, b) + 160 * SumSquares(only_b, b)), 100)
           : dot \in {81 * SumProducts(shared, a, b)} })

\* fit_transform([cv_text, job_text]) and cosine_similarity, for the analyzed
\* documents a and b; an empty vocabulary makes fit_transform raise ValueError,
\* which the except clause turns into 50.0
SimilarityOfTokens(a, b) ==
    IF Terms(a) \cup Terms(b) = {} THEN Rat(50, 1)
    ELSE Only({ Cosine(a, b, vocabulary \cap Terms(a) \cap Terms(b),
                       (vocabulary \cap Terms(a)) \ Terms(b),
                       (vocabulary \cap Terms(b)) \ Terms(a))
                : vocabulary \in {LimitFeatures(Terms(a) \cup Terms(b), a, b)} })

\* JobMatcher._calculate_tfidf_similarity
_calculate_tfidf_similarity(cv_text, job_text) ==
    Only({SimilarityOfTokens(d[1], d[2]) : d \in {<<Analyze(cv_text), Analyze(job_text)>>}})

common_skills ==
    << <<"p","y","t","h","o","n">>, <<"j","a","v","a">>, <<"j","a","v","a","s","c","r","i","p","t">>, <<"c","+","+">>, <<"s","q","l">>, <<"n","o","s","q","l">>, <<"m","o","n","g","o","d","b">>,
       <<"r","e","a","c","t">>, <<"a","n","g","u","l","a","r">>, <<"v","u","e">>, <<"n","o","d","e",".","j","s">>, <<"d","j","a","n","g","o">>, <<"f","l","a","s","k">>,
       <<"a","w","s">>, <<"a","z","u","r","e">>, <<"g","c","p">>, <<"d","o","c","k","e","r">>, <<"k","u","b","e","r","n","e","t","e","s">>, <<"g","i","t">>,
       <<"m","a","c","h","i","n","e"," ","l","e","a","r","n","i","n","g">>, <<"d","a","t","a"," ","a","n","a","l","y","s","i","s">>, <<"a","i">>, <<"d","e","e","p"," ","l","e","a","r","n","i","n","g">>,
       <<"a","g","i","l","e">>, <<"s","c","r","u","m">>, <<"j","i","r","a">>, <<"e","x","c","e","l">>, <<"p","o","w","e","r","p","o","i","n","t">>, <<"c","o","m","m","u","n","i","c","a","t","i","o","n">>,
       <<"l","e","a","d","e","r","s","h","i","p">>, <<"p","r","o","b","l","e","m"," ","s","o","l","v","i","n","g">>, <<"p","r","o","j","e","c","t"," ","m","a","n","a","g","e","m","e","n","t">> >>

\* lines 149-151 with the skill list left out: a required skill counts only when
\* the raw text holds it
SkillMatchOfRawTextOnly(cv_skills_text, cv_text, job_text) ==
    LET required(skill) == Contains(job_text, skill)
        matched(skill) == Contains(cv_text, skill)
    IN  Only({ IF Len(job_required_skills) = 0 THEN Rat(70, 1)
               ELSE Rat(Len(SelectSeq(job_required_skills, matched)) * 100, Len(job_required_skills))
               : job_required_skills \in {SelectSeq(common_skills, required)} })

\* the rest of _calculate_skill_match, for the lower-cased texts
SkillMatchOf(cv_skills_text, cv_text, job_text) ==
    LET required(skill) == Contains(job_text, skill)
        matched(skill) == Contains(cv_text, skill) \/ Contains(cv_skills_text, skill)
    IN  Only({ IF Len(job_required_skills) = 0 THEN Rat(70, 1)
               ELSE Rat(Len(SelectSeq(job_required_skills, matched)) * 100, Len(job_required_skills))
               : job_required_skills \in {SelectSeq(common_skills, required)} })

\* JobMatcher._calculate_skill_match, for a raw_text and a description that are str
_calculate_skill_match(cv, job) ==
    Only({ SkillMatchOf(Join([i \in 1..Len(skills) |-> Lower(skills[i])], <<" ">>), t[1], t[2])
           : skills \in {Get(cv, "skills", <<>>)},
             t \in {<<Lower(Get(cv, "raw_text", <<>>)), Lower(Get(job, "description", <<>>))>>} })

\* JobMatcher._calculate_experience_match, for a raw_text and a description that are str
_calculate_experience_match(cv, job) ==
    Rat(ExperienceScore(_extract_years_of_experience(Get(cv, "raw_text", <<>>)),
                        _extract_required_years(Get(job, "description", <<>>))), 1)

\* line 49: the weighted average with the experience weight at 0.25
WeightedScoreExperienceQuarter(tfidf_score, skill_score, experience_score) ==
    Rat(  50 * tfidf_score.num * skill_score.den * experience_score.den
        + 35 * skill_score.num * tfidf_score.den * experience_score.den
        + 25 * experience_score.num * tfidf_score.den * skill_score.den,
        100 * tfidf_score.den * skill_score.den * experience_score.den)

\* line 49: (tfidf_score * 0.5) + (skill_score * 0.35) + (experience_score * 0.15)
WeightedScore(tfidf_score, skill_score, experience_score) ==
    Rat(  50 * tfidf_score.num * skill_score.den * experience_score.den
        + 35 * skill_score.num * tfidf_score.den * experience_score.den
        + 15 * experience_score.num * tfidf_score.den * skill_score.den,
        100 * tfidf_score.den * skill_score.den * experience_score.den)

\* None.lower(): _calculate_skill_match and _calculate_experience_match call
\* .lower() on raw_text and on description, and nothing catches the AttributeError
Raises(cv, job) ==
    Get(cv, "raw_text", <<>>) = NoneStr \/ Get(job, "description", <<>>) = NoneStr

\* lines 49-56: the job with match_score and match_breakdown written to it
WithScores(job, tfidf_score, skill_score, experience_score) ==
    Only({ With(With(job, "match_score", Round1(final_score)),
                "match_breakdown",
                [tfidf |-> Round1(tfidf_score), skills |-> Round1(skill_score),
                 experience |-> Round1(experience_score)])
           : final_score \in {WeightedScore(tfidf_score, skill_score, experience_score)} })

\* the body of the loop of match_jobs for one job
ScoreJob(cv_text, cv, job) ==
    Only({ WithScores(job, tfidf_score, skill_score, experience_score)
           : tfidf_score \in {_calculate_tfidf_similarity(cv_text, _prepare_job_text(job))},
             skill_score \in {_calculate_skill_match(cv, job)},
             experience_score \in {_calculate_experience_match(cv, job)} })

\* the jobs match_jobs reaches: all, or those up to the first that makes it raise
Reached(cv, js) ==
    Cardinality({i \in 1..Len(js) : \A j \in 1..i : ~Raises(cv, js[j])})

\* JobMatcher.match_jobs: the list as the call leaves it.  The jobs are scored in
\* place and in order, and the list is sorted when the loop has ended; a job that
\* makes scoring raise ends the call with the jobs before it scored and the list
\* unsorted.
match_jobs(cv, js) ==
    Only({ IF reached = Len(js) THEN SortByMatchScore(scored) ELSE scored
           : reached \in {Reached(cv, js)},
             scored \in { Only({ [i \in 1..Len(js) |->
                                    IF i <= Reached(cv, js) THEN ScoreJob(cv_text, cv, js[i]) ELSE js[i]]
                                 : cv_text \in {_prepare_cv_text(cv)} }) } })

(***************************************************************************)
(* The matcher: a parsed resume and a list of jobs arrive, match_jobs       *)
(* scores the jobs in place and sorts the list, and the scored list may     *)
(* then be handed to filter_and_rank, as the search handler does.           *)
(***************************************************************************)

\* parsed resumes: the {} cv_parser returns on a parse error, one with raw text
\* only, full ones, and one whose raw_text is null
MatcherCvs ==
    { [x \in {} |-> 0],
      [raw_text |-> <<"j","a","v","a"," ","s","q","l"," ","g","i","t"," ","a","w","s">>],
      [summary |-> <<"P","y","t","h","o","n"," ","d","e","v","e","l","o","p","e","r">>, skills |-> <<<<"P","y","t","h","o","n">>, <<"A","W","S">>>>,
       raw_text |-> <<"P","y","t","h","o","n"," ","d","e","v","e","l","o","p","e","r"," ","5"," ","y","e","a","r","s"," ","e","x","p","e","r","i","e","n","c","e">>,
       experience |-> <<<<"D","e","v","e","l","o","p","e","r"," ","a","t"," ","A","c","m","e"," ","2","0","1","9"," ","-"," ","2","0","2","1">>>>, education |-> <<>>],
      [summary |-> <<"j","u","n","i","o","r"," ","p","y","t","h","o","n">>, raw_text |-> <<"j","u","n","i","o","r"," ","p","y","t","h","o","n">>],
      [summary |-> <<"P","y","t","h","o","n">>, raw_text |-> NoneStr] }

\* fetched jobs, before Numbered gives each its job_id
MatcherJobs ==
    { [title |-> <<"P","y","t","h","o","n"," ","D","e","v","e","l","o","p","e","r">>, description |-> <<"S","e","n","i","o","r"," ","p","y","t","h","o","n"," ","d","e","v","e","l","o","p","e","r"," ","w","i","t","h"," ","d","o","c","k","e","r">>,
       company |-> <<"A","c","m","e">>],
      [title |-> <<>>, description |-> <<"j","u","n","i","o","r"," ","j","a","v","a","s","c","r","i","p","t"," ","n","o","s","q","l"," ","a","i"," ","g","i","t"," ","a","w","s"," ","g","c","p"," ","v","u","e">>, company |-> <<>>],
      [title |-> <<>>, description |-> <<"<","p",">","t","h","e","<","/","p",">">>],
      [description |-> <<"j","u","n","i","o","r"," ","p","y","t","h","o","n">>],
      [title |-> <<"D","e","v","e","l","o","p","e","r">>],
      [title |-> <<"D","e","v","e","l","o","p","e","r">>, description |-> NoneStr, company |-> <<"A","c","m","e">>] }

\* two jobs that a resume without text scores differently
TieJobs == {[title |-> <<>>, description |-> <<"<","p",">","t","h","e","<","/","p",">">>], [title |-> <<"D","e","v","e","l","o","p","e","r">>]}

MatcherFilters ==
    {NoFilters, [sort_by |-> "match_score"], [min_match_score |-> Some(300)], [sort_by |-> "date"]}

InitMatcher ==
    /\ pc = "match"
    /\ now \in NowPool
    /\ \/ cv_data \in MatcherCvs /\ jobs \in JobLists(MatcherJobs)
       \/ cv_data = [x \in {} |-> 0] /\ jobs \in SortLists(TieJobs)
    /\ filters \in MatcherFilters
    /\ result = <<>>
    /\ experience_years = 0
    /\ required_years = None
    /\ SearchIdle /\ VectorizerFresh /\ AggregatorIdle /\ TrackerIdle

\* job_matcher.match_jobs(cv_data, jobs): the list is changed in place and is
\* what the call returns; when scoring raises, nothing is returned
MatchJobs ==
    /\ pc = "match"
    /\ jobs' = match_jobs(cv_data, jobs)
    /\ IF Reached(cv_data, jobs) = Len(jobs)
       THEN pc' = "matched" /\ result' = jobs'
       ELSE pc' = "raised" /\ result' = result
    /\ UNCHANGED <<now, cv_data, filters, experience_years, required_years>>
    /\ UNCHANGED <<search_vars, vectorizer_vars, aggregator_vars, tracker_vars>>

NextMatcher == MatchJobs \/ FilterAndRank

SpecMatcher == InitMatcher /\ [][NextMatcher]_vars

\* the ranker is run on lists that were scored by match_jobs and on lists that
\* were not
InitPipeline == InitRanker \/ InitMatcher

SpecPipeline == InitPipeline /\ [][NextMatcher]_vars

(***************************************************************************)
(* Properties of the matcher                                                *)
(***************************************************************************)

\* the jobs of the list that match_jobs has written a score to
Scored == {i \in JobIdx : "match_breakdown" \in DOMAIN jobs[i]}

\* the score the stored breakdown gives: round(sim*0.5 + skill*0.35 + exp*0.15, 1)
\* of the three stored values
FromBreakdown(job) ==
    Round1(WeightedScore(Rat(job.match_breakdown.tfidf, 10),
                         Rat(job.match_breakdown.skills, 10),
                         Rat(job.match_breakdown.experience, 10)))

\* C1: for every job match_jobs has processed, the stored match_score equals
\* round(sim*0.5 + skill*0.35 + exp*0.15, 1) of the three values stored in its
\* match_breakdown.
C1_ScoreReconstructible ==
    \A i \in Scored : jobs[i].match_score = FromBreakdown(jobs[i])

InRange(v) == 0 <= v /\ v <= 1000

\* C2: every match_score written by match_jobs is in [0, 100], and so is each of
\* the three sub-scores of match_breakdown, the neutral defaults 50, 70 and 75
\* included.
C2_ScoresInRange ==
    \A i \in Scored :
        /\ InRange(jobs[i].match_score)
        /\ InRange(jobs[i].match_breakdown.tfidf)
        /\ InRange(jobs[i].match_breakdown.skills)
        /\ InRange(jobs[i].match_breakdown.experience)

\* a job was scored with all three sub-scores at their neutral defaults, and
\* another of the list with a sub-score at 0 and a sub-score at 100
C2_Witness ==
    /\ \E i \in Scored :
          jobs[i].match_breakdown = [tfidf |-> 500, skills |-> 700, experience |-> 750]
    /\ \E i \in Scored :
          jobs[i].match_breakdown.skills = 0 /\ jobs[i].match_breakdown.experience = 1000

\* the place of a job in the list
PlaceIn(s, job) == CHOOSE p \in 1..Len(s) : s[p] = job

\* sort_by is match_score, or absent
SortByScore == Get(filters, "sort_by", "match_score") = "match_score"

\* C6: after match_jobs the list is in non-increasing match_score order and jobs
\* of equal score are in the order they arrived in (job_id); after
\* filter_and_rank with sort_by match_score or absent the returned list is in
\* non-increasing match_score order, a missing score counting as 0, and jobs of
\* equal score are in the order of the list handed in.
C6_SortDescendingStable ==
    /\ pc = "matched" => SortedDescStable(jobs)
    /\ (Ranked /\ SortByScore) =>
          \A p, q \in 1..Len(result) :
              p < q => \/ ScoreOf(result[p]) > ScoreOf(result[q])
                       \/ /\ ScoreOf(result[p]) = ScoreOf(result[q])
                          /\ PlaceIn(jobs, result[p]) < PlaceIn(jobs, result[q])

\* match_jobs has moved the job that arrived third to the head of the list, ahead
\* of two jobs of equal score that are in the order they arrived in, and
\* filter_and_rank, sorting by match_score, has returned the three
C6_Witness ==
    /\ Ranked /\ SortByScore
    /\ Len(result) = 3
    /\ Scored = JobIdx
    /\ jobs[1].job_id = 3
    /\ ScoreOf(result[2]) = ScoreOf(result[3])
    /\ result[2].job_id < result[3].job_id

(***************************************************************************)
(* The extractors and the two rule-based sub-scores on their own: a parsed  *)
(* resume and one job arrive; _calculate_experience_match extracts the      *)
(* years the resume shows (line 162) and the years the job asks for (line   *)
(* 166) and scores them, and _calculate_skill_match scores the skills.      *)
(***************************************************************************)

\* parsed resumes: 'raw_text' and 'skills' as cv_parser.parse returns them
ExtractorCvs ==
    { [raw_text |-> <<"5","+"," ","y","e","a","r","s"," ","o","f"," ","e","x","p","e","r","i","e","n","c","e"," ","i","n"," ","P","y","t","h","o","n">>, skills |-> <<<<"P","y","t","h","o","n">>, <<"A","W","S">>>>],
      [raw_text |-> <<"E","x","p","e","r","i","e","n","c","e",":"," ","o","v","e","r"," ","3"," ","y","e","a","r","s","."," ","A","l","s","o"," ","1","0"," ","y","e","a","r","s"," ","e","x","p">>, skills |-> <<>>],
      [raw_text |-> <<"D","e","v","e","l","o","p","e","r"," ","2","0","1","9"," ","-"," ","2","0","2","1",","," ","L","e","a","d"," ","2","0","2","1"," ","-"," ","p","r","e","s","e","n","t">>, skills |-> <<<<"M","a","c","h","i","n","e">>, <<"L","e","a","r","n","i","n","g">>>>],
      [raw_text |-> <<"A","c","m","e"," ","2","0","2","1","-","2","0","1","9">>, skills |-> <<<<"D","o","c","k","e","r">>>>],
      [raw_text |-> <<"I","n","t","e","r","n"," ","2","0","2","0","~","2","0","2","1"," ","a","n","d"," ","2","0","2","2"," ","-","c","u","r","r","e","n","t"," ","w","i","t","h"," ","S","Q","L">>, skills |-> <<>>],
      [raw_text |-> <<"E","x","p","e","r","t",","," ","2"," ","y","e","a","r","s"," ","a","t"," ","A","c","m","e"," ","2","0","1","5","-","2","0","2","0">>, skills |-> <<<<"J","a","v","a","S","c","r","i","p","t">>>>],
      [raw_text |-> <<"P","Y","T","H","O","N"," ","d","e","v","e","l","o","p","e","r">>, skills |-> <<<<"P","y","t","h","o","n">>, <<"A","W","S">>>>],
      [raw_text |-> <<>>, skills |-> <<<<"P","y","t","h","o","n">>, <<"A","W","S">>>>],
      [raw_text |-> <<"1","2"," ","y","e","a","r","s"," ","e","x","p","e","r","i","e","n","c","e",","," ","7"," ","y","r","s"," ","e","x","p">>, skills |-> <<>>],
      [raw_text |-> <<"3"," ","y","e","a","r","s"," ","e","x","p",","," ","t","h","e","n"," ","8"," ","y","e","a","r","s"," ","o","f"," ","e","x","p","e","r","i","e","n","c","e","."," ","E","x","p","e","r","i","e","n","c","e",":"," ","1"," ","y","e","a","r">>, skills |-> <<>>] }

\* 'description' of a fetched job
ExtractorDescriptions ==
    { <<"L","o","o","k","i","n","g"," ","f","o","r"," ","a"," ","S","e","n","i","o","r"," ","e","n","g","i","n","e","e","r">>,
      <<"W","e"," ","u","s","e"," ","p","y","t","h","o","n"," ","a","n","d"," ","d","o","c","k","e","r">>,
      <<"3","+"," ","y","e","a","r","s"," ","e","x","p","e","r","i","e","n","c","e"," ","r","e","q","u","i","r","e","d",","," ","s","e","n","i","o","r"," ","r","o","l","e">>,
      <<"M","i","n","i","m","u","m"," ","2"," ","y","e","a","r","s",","," ","j","u","n","i","o","r"," ","w","e","l","c","o","m","e">>,
      <<"4"," ","y","e","a","r","s"," ","w","i","t","h"," ","J","a","v","a">>,
      <<"m","i","d","-","l","e","v","e","l"," ","J","a","v","a","S","c","r","i","p","t">>,
      <<"G","r","a","d","u","a","t","e"," ","r","o","l","e">>,
      <<>>,
      <<"M","a","c","h","i","n","e"," ","L","e","a","r","n","i","n","g"," ","a","n","d"," ","S","Q","L">>,
      <<"T","e","a","m"," ","l","e","a","d",","," ","i","n","t","e","r","m","e","d","i","a","t","e"," ","E","x","c","e","l">>,
      <<"1","0"," ","y","e","a","r","s"," ","o","f"," ","e","x","p","e","r","i","e","n","c","e",".">> \o <<"\n">> \o <<"D","e","g","r","e","e"," ","r","e","q","u","i","r","e","d">>,
      <<"1"," ","y","e","a","r"," ","e","x","p"," ","n","e","e","d","e","d",";"," ","7"," ","y","e","a","r","s"," ","i","n"," ","Q","A">> }

\* datetime.now() of two calls, one in 2024 and one in 2026
ExtractorNows == NowPool \cup {[day |-> Ordinal(2026, 11, 1), sec |-> 43200, aware |-> FALSE, ok |-> TRUE]}

InitExtractors ==
    /\ pc = "extract"
    /\ now \in ExtractorNows
    /\ cv_data \in ExtractorCvs
    /\ jobs \in {<<[description |-> d]>> : d \in ExtractorDescriptions}
    /\ filters = NoFilters
    /\ result = <<>>
    /\ experience_years = 0
    /\ required_years = None
    /\ SearchIdle /\ VectorizerFresh /\ AggregatorIdle /\ TrackerIdle

\* line 162: experience_years = self._extract_years_of_experience(cv_text)
ExtractYearsOfExperience ==
    /\ pc = "extract"
    /\ experience_years' = _extract_years_of_experience(Get(cv_data, "raw_text", <<>>))
    /\ pc' = "years_extracted"
    /\ UNCHANGED <<now, cv_data, jobs, filters, result, required_years>>
    /\ UNCHANGED <<search_vars, vectorizer_vars, aggregator_vars, tracker_vars>>

\* line 166: required_years = self._extract_required_years(job_text); the rest of
\* _calculate_experience_match is CalculateExperienceMatch
ExtractRequiredYears ==
    /\ pc = "years_extracted"
    /\ required_years' = _extract_required_years(Get(jobs[1], "description", <<>>))
    /\ pc' = "experience"
    /\ UNCHANGED <<now, cv_data, jobs, filters, result, experience_years>>
    /\ UNCHANGED <<search_vars, vectorizer_vars, aggregator_vars, tracker_vars>>

\* self._calculate_skill_match(cv_data, job)
CalculateSkillMatch ==
    /\ pc = "extract"
    /\ result' = <<_calculate_skill_match(cv_data, jobs[1])>>
    /\ pc' = "skills_scored"
    /\ UNCHANGED <<now, cv_data, jobs, filters, experience_years, required_years>>
    /\ UNCHANGED <<search_vars, vectorizer_vars, aggregator_vars, tracker_vars>>

NextExtractors ==
    \/ ExtractYearsOfExperience
    \/ ExtractRequiredYears
    \/ CalculateExperienceMatch
    \/ CalculateSkillMatch

SpecExtractors == InitExtractors /\ [][NextExtractors]_vars

(***************************************************************************)
(* Properties of the extractors and of the skill score                     *)
(***************************************************************************)

\* the reference terms that occur in the job's description, lower-cased
RequiredTerms ==
    {k \in 1..Len(common_skills) : Contains(Lower(jobs[1].description), common_skills[k])}

\* the required terms that occur in the resume's raw text or in its skill list
\* (the list read as its entries with a space between them), lower-cased
FoundTerms ==
    {k \in RequiredTerms :
        \/ Contains(Lower(cv_data.raw_text), common_skills[k])
        \/ Contains(Lower(Join(cv_data.skills, <<" ">>)), common_skills[k])}

\* C11: the skill score is 70 when no term of the reference vocabulary occurs in
\* the job's text, and otherwise 100 * (required terms found, case-insensitively
\* as substrings, in the resume's skill list or raw text) / (required terms);
\* skills {Python, AWS} against a job that mentions only python and docker give 50.
C11_SkillScore ==
    pc = "skills_scored" =>
        /\ RequiredTerms = {} => result[1] = Rat(70, 1)
        /\ RequiredTerms # {} =>
              result[1] = Rat(100 * Cardinality(FoundTerms), Cardinality(RequiredTerms))
        /\ (cv_data.skills = <<<<"P","y","t","h","o","n">>, <<"A","W","S">>>> /\ jobs[1].description = <<"W","e"," ","u","s","e"," ","p","y","t","h","o","n"," ","a","n","d"," ","d","o","c","k","e","r">>)
              => result[1] = Rat(50, 1)

\* C11's case: a resume whose skills are Python and AWS, and whose raw text names
\* no skill, was scored 50 against the job that mentions python and docker
C11_Witness ==
    /\ pc = "skills_scored"
    /\ cv_data.skills = <<<<"P","y","t","h","o","n">>, <<"A","W","S">>>> /\ cv_data.raw_text = <<>>
    /\ jobs[1].description = <<"W","e"," ","u","s","e"," ","p","y","t","h","o","n"," ","a","n","d"," ","d","o","c","k","e","r">>
    /\ Cardinality(RequiredTerms) = 2 /\ Cardinality(FoundTerms) = 1
    /\ result = <<Rat(50, 1)>>

(***************************************************************************)
(* Properties of match_jobs as a call                                       *)
(***************************************************************************)

\* C12 as claimed: match_jobs returns normally for every resume record and every
\* list of jobs, jobs and resumes with a missing, empty or null field included,
\* and then every job of the list has match_score and match_breakdown.
C12_ScoringNeverFails ==
    /\ pc # "raised"
    /\ pc = "matched" =>
          \A i \in JobIdx : {"match_score", "match_breakdown"} \subseteq DOMAIN jobs[i]

\* sort_by is given and is none of the keys _sort_jobs knows
UnknownSortKey ==
    "sort_by" \in DOMAIN filters /\ filters["sort_by"] \notin {"match_score", "date", "salary"}

\* C13 as claimed: with a sort_by that is none of match_score, date and salary,
\* filter_and_rank returns the surviving jobs in match_score-descending order (a
\* missing score counting as 0) whenever it returns a list at all.
C13_UnknownSortKeyOrdersByScore ==
    (Ranked /\ UnknownSortKey) =>
        \A p, q \in 1..Len(result) : p < q => ScoreOf(result[p]) >= ScoreOf(result[q])

(***************************************************************************)
(* The search request handler of main.py: the aggregator's jobs are scored  *)
(* against the resume of cv_file when that file is in the uploads           *)
(* directory, filtered and ranked when the request carries criteria, and    *)
(* returned.                                                                *)
(***************************************************************************)

\* str.endswith
EndsWith(s, suffix) ==
    Len(s) >= Len(suffix) /\ SubSeq(s, Len(s) - Len(suffix) + 1, Len(s)) = suffix

\* lines 190-192: if cv_file: ... if cv_path.exists():
CvFileFound(req, ups) ==
    /\ req.cv_file # None
    /\ TruthyStr(req.cv_file[1])
    /\ req.cv_file[1] \in DOMAIN ups

\* CVParser.parse raises ValueError for a path that ends in neither .pdf nor .docx
ParseRaises(name) ==
    ~(EndsWith(Lower(name), <<".","p","d","f">>) \/ EndsWith(Lower(name), <<".","d","o","c","x">>))

\* lines 190-194 raise: in cv_parser.parse, or in match_jobs
MatchingRaises(req, ups, fetched) ==
    /\ CvFileFound(req, ups)
    /\ \/ ParseRaises(req.cv_file[1])
       \/ Reached(ups[req.cv_file[1]], fetched) < Len(fetched)

\* lines 196-198: if request.filters: jobs = job_ranker.filter_and_rank(jobs, request.filters)
Presented(req, js, t) ==
    IF req.filters # None /\ DOMAIN req.filters[1] # {}
    THEN filter_and_rank(js, req.filters[1], t)
    ELSE js

\* lines 200-205
SearchResponse(req, js) ==
    [success |-> TRUE, jobs |-> js, total_jobs |-> Len(js), filters_applied |-> req.filters # None]

\* lines 182-187
NoJobsResponse == [success |-> TRUE, jobs |-> <<>>, total_jobs |-> 0]

\* line 208: raise HTTPException(status_code=500, ...)
ErrorResponse == [success |-> FALSE, status_code |-> 500]

\* resumes as cv_parser.parse returns them: a parsed one, and the {} of a file
\* the reader failed on
SearchCvs ==
    { [summary |-> <<"j","u","n","i","o","r"," ","p","y","t","h","o","n">>, raw_text |-> <<"j","u","n","i","o","r"," ","p","y","t","h","o","n">>, skills |-> <<<<"P","y","t","h","o","n">>>>,
       experience |-> <<>>, education |-> <<>>],
      EmptyDict }

\* the files of the uploads directory
SearchUploads ==
    {[name \in {<<"c","v",".","p","d","f">>, <<"C","V",".","D","O","C","X">>, <<"n","o","t","e","s",".","t","x","t">>} |-> cv] : cv \in SearchCvs}

\* jobs as fetch_all_jobs returns them, before Numbered gives each its job_id
SearchJobsPool ==
    { [title |-> <<"P","y","t","h","o","n"," ","D","e","v","e","l","o","p","e","r">>, description |-> <<"S","e","n","i","o","r"," ","p","y","t","h","o","n"," ","d","e","v","e","l","o","p","e","r"," ","w","i","t","h"," ","d","o","c","k","e","r">>, company |-> <<"A","c","m","e">>,
       created |-> <<"2","0","2","4","-","1","2","-","1","4">>],
      [title |-> <<"D","e","v","e","l","o","p","e","r">>, description |-> <<"j","u","n","i","o","r"," ","p","y","t","h","o","n">>, company |-> <<"I","n","i","t","e","c","h">>,
       created |-> <<"2","0","2","4","-","1","0","-","0","1">>],
      [title |-> <<"D","e","v","e","l","o","p","e","r">>, description |-> NoneStr, company |-> <<"A","c","m","e">>, created |-> <<>>] }

\* JobSearchRequest and the cv_file query parameter
SearchRequests ==
    {[cv_file |-> c, filters |-> f] :
        c \in {None, Some(<<>>), Some(<<"c","v",".","p","d","f">>), Some(<<"C","V",".","D","O","C","X">>), Some(<<"g","o","n","e",".","p","d","f">>), Some(<<"n","o","t","e","s",".","t","x","t">>)},
        f \in {None, Some(EmptyDict), Some([min_match_score |-> Some(300)]), Some([date_posted |-> "7days"])}}

InitSearch ==
    /\ pc = "search"
    /\ now \in NowPool
    /\ request \in SearchRequests
    /\ uploads \in SearchUploads
    /\ jobs \in JobLists(SearchJobsPool)
    /\ response = EmptyDict
    /\ cv_data = EmptyDict
    /\ filters = NoFilters
    /\ result = <<>>
    /\ experience_years = 0
    /\ required_years = None
    /\ VectorizerFresh /\ AggregatorIdle /\ TrackerIdle

\* search_jobs(request, cv_file); jobs is the list fetch_all_jobs returned
SearchJobs ==
    /\ pc = "search"
    /\ pc' = "searched"
    /\ IF Len(jobs) = 0
       THEN response' = NoJobsResponse /\ UNCHANGED <<cv_data, jobs>>
       ELSE IF ~CvFileFound(request, uploads)
       THEN response' = SearchResponse(request, Presented(request, jobs, now)) /\ UNCHANGED <<cv_data, jobs>>
       ELSE IF ParseRaises(request.cv_file[1])
       THEN response' = ErrorResponse /\ UNCHANGED <<cv_data, jobs>>
       ELSE /\ cv_data' = uploads[request.cv_file[1]]
            /\ jobs' = match_jobs(cv_data', jobs)
            /\ response' = IF MatchingRaises(request, uploads, jobs) THEN ErrorResponse
                           ELSE SearchResponse(request, Presented(request, jobs', now))
    /\ UNCHANGED <<now, filters, result, experience_years, required_years, request, uploads>>
    /\ UNCHANGED <<vectorizer_vars, aggregator_vars, tracker_vars>>

NextSearch == SearchJobs

SpecSearch == InitSearch /\ [][NextSearch]_vars

(***************************************************************************)
(* Properties of the search request handler                                 *)
(***************************************************************************)

\* C14 as claimed: whether cv_file is given, absent or names no file, and whether
\* criteria are given or not, every job of a non-empty list that search_jobs
\* returns has match_score and match_breakdown.
C14_PresentedJobsAreScored ==
    (pc = "searched" /\ response.success) =>
        \A p \in 1..Len(response.jobs) :
            {"match_score", "match_breakdown"} \subseteq DOMAIN response.jobs[p]

(***************************************************************************)
(* The vectorizer in steps.  A JobMatcher holds one TfidfVectorizer         *)
(* (self.vectorizer), and every call of _calculate_tfidf_similarity fits    *)
(* it again: fit_transform counts the terms of the two documents and        *)
(* stores the vocabulary on the vectorizer, fits the idf weights and        *)
(* stores them on the vectorizer, and then weighs the counts with the idf   *)
(* weights the vectorizer holds.  A call is one pass of the loop body of    *)
(* match_jobs: [pc, cv, job, cv_text, job_text, X, tfidf_score].            *)
(***************************************************************************)

\* the number of passes of the loop body that use the one JobMatcher
MaxCalls == 2

\* a term as the vocabulary holds it: its tokens with a space between them
TermStr(term) == Join(term, <<" ">>)

\* the feature names in the order of their columns: the vocabulary, sorted
Features(vocabulary) ==
    [i \in 1..Cardinality(vocabulary) |->
        CHOOSE t \in vocabulary :
            Cardinality({u \in vocabulary : StrLt(TermStr(u), TermStr(t))}) = i - 1]

\* the matrix of counts of CountVectorizer.fit_transform for the analyzed
\* documents a and b: one row a document, one column a feature
CountMatrix(features, a, b) ==
    << [i \in 1..Len(features) |-> TermCount(features[i], a)],
       [i \in 1..Len(features) |-> TermCount(features[i], b)] >>

\* TfidfTransformer.fit with every call keeping the weights of the fit before it,
\* when there was one
FittedIdfKeepsEarlier(vec, X) ==
    IF "idf_" \in DOMAIN vec THEN vec.idf_
    ELSE [i \in 1..Len(X[1]) |-> IF X[1][i] > 0 /\ X[2][i] > 0 THEN 81 ELSE 160]

\* TfidfTransformer.fit: the idf weight of every column of X, idf = ln(3 / (1 + df))
\* + 1, held as 81 times its square: 81 for a term of both documents, 160 for a
\* term of one (see Cosine)
FittedIdf(vec, X) ==
    [i \in 1..Len(X[1]) |-> IF X[1][i] > 0 /\ X[2][i] > 0 THEN 81 ELSE 160]

RECURSIVE WeightedSum(_, _, _, _)
\* the sum over the columns from i on of idf squared times the two counts
WeightedSum(idf, a, b, i) ==
    IF i > Len(idf) THEN 0
    ELSE idf[i] * a[i] * b[i] + WeightedSum(idf, a, b, i + 1)

\* TfidfTransformer.transform(X) with the weights idf, then cosine_similarity of
\* the two rows, times 100; transform raises ValueError when X has another number
\* of columns than idf has weights, which the except clause turns into 50.0
TransformedSimilarity(idf, X) ==
    IF Len(idf) # Len(X[1]) THEN Rat(50, 1)
    ELSE Only({ IF dot = 0 THEN Rat(0, 1)
                ELSE Rat(CosineFloor(0, 10000, dot, WeightedSum(idf, X[1], X[1], 1),
                                     WeightedSum(idf, X[2], X[2], 1)), 100)
                : dot \in {WeightedSum(idf, X[1], X[2], 1)} })

\* resumes of the calls
CallCvs ==
    { [summary |-> <<"p","y","t","h","o","n"," ","d","e","v","e","l","o","p","e","r">>, raw_text |-> <<"p","y","t","h","o","n"," ","d","e","v","e","l","o","p","e","r">>],
      EmptyDict }

\* jobs of the calls
CallJobs ==
    { [description |-> <<"p","y","t","h","o","n">>], [description |-> <<"d","e","v","e","l","o","p","e","r">>],
      [description |-> <<"j","a","v","a"," ","p","y","t","h","o","n">>], [description |-> <<"t","h","e">>] }

NewCall(cv, job) ==
    [pc |-> "idle", cv |-> cv, job |-> job, cv_text |-> <<>>, job_text |-> <<>>,
     X |-> <<>>, tfidf_score |-> Rat(0, 1)]

InitCalls ==
    /\ pc = "calls"
    /\ vectorizer = EmptyDict
    /\ calls \in [1..MaxCalls -> {NewCall(cv, job) : cv \in CallCvs, job \in CallJobs}]
    /\ now \in NowPool
    /\ cv_data = EmptyDict
    /\ jobs = <<>>
    /\ filters = NoFilters
    /\ result = <<>>
    /\ experience_years = 0
    /\ required_years = None
    /\ SearchIdle /\ AggregatorIdle /\ TrackerIdle

\* lines 34, 37 and 40: the texts are prepared and _calculate_tfidf_similarity is
\* entered
StartCall(c) ==
    /\ calls[c].pc = "idle"
    /\ calls' = [calls EXCEPT ![c].pc = "count",
                              ![c].cv_text = _prepare_cv_text(calls[c].cv),
                              ![c].job_text = _prepare_job_text(calls[c].job)]
    /\ UNCHANGED vectorizer

\* line 112, CountVectorizer.fit_transform: the terms of the two documents are
\* counted and the vocabulary is stored on the vectorizer; an empty vocabulary
\* raises ValueError, which the except clause turns into 50.0
CountVocabulary(c) ==
    /\ calls[c].pc = "count"
    /\ \E a \in {Analyze(calls[c].cv_text)}, b \in {Analyze(calls[c].job_text)} :
       \E features \in {Features(LimitFeatures(Terms(a) \cup Terms(b), a, b))} :
          IF Len(features) = 0
          THEN /\ calls' = [calls EXCEPT ![c].pc = "done", ![c].tfidf_score = Rat(50, 1)]
               /\ UNCHANGED vectorizer
          ELSE /\ calls' = [calls EXCEPT ![c].pc = "fit", ![c].X = CountMatrix(features, a, b)]
               /\ vectorizer' = With(vectorizer, "vocabulary_", features)

\* line 112, self._tfidf.fit(X): the idf weights are stored on the vectorizer
FitIdf(c) ==
    /\ calls[c].pc = "fit"
    /\ vectorizer' = With(vectorizer, "idf_", FittedIdf(vectorizer, calls[c].X))
    /\ calls' = [calls EXCEPT ![c].pc = "transform"]

\* lines 112-118, self._tfidf.transform(X) and cosine_similarity: the counts are
\* weighed with the idf weights the vectorizer holds
Transform(c) ==
    /\ calls[c].pc = "transform"
    /\ calls' = [calls EXCEPT ![c].pc = "done",
                              ![c].tfidf_score = TransformedSimilarity(vectorizer.idf_, calls[c].X)]
    /\ UNCHANGED vectorizer

\* no other call is inside _calculate_tfidf_similarity
NoneInProgress(c) == \A d \in DOMAIN calls : d = c \/ calls[d].pc \in {"idle", "done"}

UnchangedByCalls ==
    UNCHANGED <<pc, now, cv_data, jobs, filters, result, experience_years, required_years,
                search_vars, aggregator_vars, tracker_vars>>

\* the calls one after another, as the loop of match_jobs makes them
NextCallsInTurn ==
    /\ \E c \in DOMAIN calls :
          \/ StartCall(c) /\ NoneInProgress(c)
          \/ CountVocabulary(c)
          \/ FitIdf(c)
          \/ Transform(c)
    /\ UnchangedByCalls

SpecCallsInTurn == InitCalls /\ [][NextCallsInTurn]_vars

\* the calls made by threads that are not synchronized
NextCallsConcurrent ==
    /\ \E c \in DOMAIN calls :
          \/ StartCall(c)
          \/ CountVocabulary(c)
          \/ FitIdf(c)
          \/ Transform(c)
    /\ UnchangedByCalls

SpecCallsConcurrent == InitCalls /\ [][NextCallsConcurrent]_vars

(***************************************************************************)
(* Properties of the calls on one JobMatcher                                *)
(***************************************************************************)

Done(c) == calls[c].pc = "done"

\* the job of a call as the loop body leaves it, for the similarity the call got
ScoredBy(c) ==
    WithScores(calls[c].job, calls[c].tfidf_score,
               _calculate_skill_match(calls[c].cv, calls[c].job),
               _calculate_experience_match(calls[c].cv, calls[c].job))

\* the calls score jobs against one resume
OneResume == \A c, d \in DOMAIN calls : calls[c].cv = calls[d].cv

\* C15 as claimed: when jobs are scored against one resume concurrently on one
\* JobMatcher without synchronization, every job gets, in every interleaving,
\* the similarity and the match_score it gets when the jobs are scored one after
\* another.
C15_ConcurrentScoringAsInTurn ==
    \A c \in DOMAIN calls :
        (Done(c) /\ OneResume) =>
            /\ calls[c].tfidf_score = _calculate_tfidf_similarity(calls[c].cv_text, calls[c].job_text)
            /\ ScoredBy(c).match_score
                  = ScoreJob(calls[c].cv_text, calls[c].cv, calls[c].job).match_score

\* the vocabulary of a call's two texts is empty: vectorization fails
VectorizationFails(c) ==
    Terms(Analyze(calls[c].cv_text)) \cup Terms(Analyze(calls[c].job_text)) = {}

\* C16: the similarity a call made in turn returns depends on its two texts only:
\* it is the similarity the two texts have on a vectorizer that was never used,
\* whatever calls were made before it, two calls with the same two texts return
\* the same, and it is 50.0 when vectorization fails.
C16_SimilarityDependsOnTextsOnly ==
    \A c \in DOMAIN calls :
        Done(c) =>
            /\ calls[c].tfidf_score = _calculate_tfidf_similarity(calls[c].cv_text, calls[c].job_text)
            /\ \A d \in DOMAIN calls :
                  (Done(d) /\ calls[d].cv_text = calls[c].cv_text /\ calls[d].job_text = calls[c].job_text)
                      => calls[d].tfidf_score = calls[c].tfidf_score
            /\ VectorizationFails(c) => calls[c].tfidf_score = Rat(50, 1)

\* C16's case: the two calls were made in turn with the same resume and two job
\* texts that give as many columns but other weights, so that the later call
\* found the vocabulary and the weights of the earlier one on the vectorizer, and
\* each returned the similarity of its own two texts, neither 0 nor 50
C16_Witness ==
    /\ Done(1) /\ Done(2)
    /\ Len(calls[1].X) = 2 /\ Len(calls[2].X) = 2
    /\ calls[1].cv_text = calls[2].cv_text
    /\ calls[1].job_text # calls[2].job_text
    /\ Len(calls[1].X[1]) = Len(calls[2].X[1])
    /\ FittedIdf(vectorizer, calls[1].X) # FittedIdf(vectorizer, calls[2].X)
    /\ calls[1].tfidf_score \notin {Rat(0, 1), Rat(50, 1)}
    /\ calls[2].tfidf_score \notin {Rat(0, 1), Rat(50, 1)}

(***************************************************************************)
(* Properties of the two extractors                                         *)
(***************************************************************************)

\* line 162 has run
YearsExtracted == pc \in {"years_extracted", "experience", "experience_scored"} /\ Len(jobs) = 1

\* line 166 has run
RequiredExtracted == pc \in {"experience", "experience_scored"} /\ Len(jobs) = 1

\* the N of every place of the text where 'N years (of) experience' or
\* 'experience ... N years' matches
ExplicitYears(t) ==
         {YearsExperienceAt(t, p).n : p \in {q \in 1..Len(t) : YearsExperienceAt(t, q).ok}}
    \cup {FirstYearsFrom(t, p + 3).n :
             p \in {q \in 1..Len(t) : StartsAt(t, q, <<"e","x","p">>) /\ FirstYearsFrom(t, q + 3).ok}}

\* the text holds a YYYY-YYYY or YYYY-present range
HasDateRange(t) == \E p \in 1..Len(t) : DateRangeAt(t, p).ok

\* the largest number of a set of numbers that is not empty
Greatest(S) == CHOOSE x \in S : \A y \in S : y <= x

\* C17: when the resume text holds one or more explicit 'N years (of) experience'
\* or 'experience ... N years' matches, the years extracted are the largest N of
\* them ("5+ years of experience in Python" gives 5); when it holds no such match
\* and no date range, they are the default 2.
C17_ExplicitYearsMaximum ==
    YearsExtracted =>
        LET t == Lower(cv_data.raw_text)
        IN  /\ ExplicitYears(t) # {} => experience_years = Greatest(ExplicitYears(t))
            /\ (ExplicitYears(t) = {} /\ ~HasDateRange(t)) => experience_years = 2
            /\ cv_data.raw_text = <<"5","+"," ","y","e","a","r","s"," ","o","f"," ","e","x","p","e","r","i","e","n","c","e"," ","i","n"," ","P","y","t","h","o","n">> => experience_years = 5

\* C17's case: years were extracted from a text with three explicit matches, 3, 8
\* and 1, the largest of which is not the first
C17_Witness ==
    /\ pc = "years_extracted"
    /\ cv_data.raw_text = <<"3"," ","y","e","a","r","s"," ","e","x","p",","," ","t","h","e","n"," ","8"," ","y","e","a","r","s"," ","o","f"," ","e","x","p","e","r","i","e","n","c","e","."," ","E","x","p","e","r","i","e","n","c","e",":"," ","1"," ","y","e","a","r">>
    /\ {1, 3, 8} \subseteq ExplicitYears(Lower(cv_data.raw_text))
    /\ experience_years = 8

\* the calendar year of datetime.now()
CurrentYear == CHOOSE y \in 2000..2100 : Ordinal(y, 1, 1) <= now.day /\ now.day < Ordinal(y + 1, 1, 1)

\* the match of the date-range pattern ends in 'present' or 'current'
EndsInPresent(s, m) ==
    m.end > 7 /\ SubSeq(s, m.end - 7, m.end - 1) \in {<<"p","r","e","s","e","n","t">>, <<"c","u","r","r","e","n","t">>}

RECURSIVE RangeYears(_, _, _)
\* the sum of end - start over the ranges of the text from place i on, a range
\* that ends in 'present' or 'current' ending in the given year
RangeYears(s, i, year) ==
    LET hits == {p \in i..Len(s) : DateRangeAt(s, p).ok}
        m == DateRangeAt(s, Least(hits))
    IN  IF hits = {} THEN 0
        ELSE (IF EndsInPresent(s, m) THEN m.n - present_year + year ELSE m.n)
             + RangeYears(s, m.end, year)

\* C18 as claimed: when no explicit 'N years' pattern matches and the text holds a
\* date range, the years extracted are max(1, sum of endYear - startYear over the
\* ranges), the end year of a range that ends in 'present' or 'current' being the
\* calendar year of the call.
C18_DateRangeFallback ==
    YearsExtracted =>
        LET t == Lower(cv_data.raw_text)
            total == RangeYears(t, 1, CurrentYear)
        IN  (ExplicitYears(t) = {} /\ HasDateRange(t)) =>
                experience_years = IF total > 1 THEN total ELSE 1

\* the numbers every match of one of the three numeric patterns captures
NumericYears(t) ==
    {RequiredPatternAt(k[1], t, k[2]).n :
        k \in {x \in (1..3) \X (1..Len(t)) : RequiredPatternAt(x[1], t, x[2]).ok}}

\* the text holds one of the words
HoldsOneOf(t, words) == \E w \in words : Contains(t, w)

MaxFetched == 3

\* str.strip()
Strip(s) ==
    Only({ IF keep = {} THEN <<>>
           ELSE SubSeq(s, Least(keep), CHOOSE i \in keep : \A j \in keep : j <= i)
           : keep \in {{i \in 1..Len(s) : s[i] \notin Whitespace}} })

\* lines 229-232: key = (title.lower().strip(), company.lower().strip())
DedupKey(job) ==
    <<Strip(Lower(Get(job, "title", <<>>))), Strip(Lower(Get(job, "company", <<>>)))>>

RECURSIVE RemoveDuplicatesFrom(_, _, _)
\* the loop of _remove_duplicates from job i on, for the keys seen so far
RemoveDuplicatesFrom(js, i, seen) ==
    IF i > Len(js) THEN <<>>
    ELSE Only({ IF key \notin seen /\ key # <<<<>>, <<>>>>
                THEN <<js[i]>> \o RemoveDuplicatesFrom(js, i + 1, seen \cup {key})
                ELSE RemoveDuplicatesFrom(js, i + 1, seen)
                : key \in {DedupKey(js[i])} })

\* JobAggregator._remove_duplicates
_remove_duplicates(js) == RemoveDuplicatesFrom(js, 1, {})

\* 'title' and 'company' of fetched jobs
FetchedIdentities ==
    { <<<<"D","e","v","e","l","o","p","e","r">>, <<"A","c","m","e">>>>, <<<<" ","d","e","v","e","l","o","p","e","r"," ">>, <<"A","C","M","E">>>>, <<<<"D","e","v","e","l","o","p","e","r">>, <<"I","n","i","t","e","c","h">>>>,
      <<<<>>, <<"A","c","m","e">>>>, <<<<>>, <<>>>>, <<<<" ">>, <<>>>> }

\* lists of fetched jobs, each with its job_id
FetchedLists ==
    {Numbered([i \in 1..Len(ids) |-> [title |-> ids[i][1], company |-> ids[i][2]]]) :
        ids \in SeqsUpTo(FetchedIdentities, MaxFetched)}

InitAggregator ==
    /\ pc = "fetched"
    /\ jobs \in FetchedLists
    /\ result = <<>>
    /\ now \in NowPool
    /\ cv_data = EmptyDict
    /\ filters = NoFilters
    /\ experience_years = 0
    /\ required_years = None
    /\ SearchIdle /\ VectorizerFresh /\ AggregatorIdle /\ TrackerIdle

\* line 63: unique_jobs = self._remove_duplicates(all_jobs)
RemoveDuplicates ==
    /\ pc = "fetched"
    /\ result' = _remove_duplicates(jobs)
    /\ pc' = "deduplicated"
    /\ UNCHANGED <<now, cv_data, jobs, filters, experience_years, required_years>>
    /\ UNCHANGED <<search_vars, vectorizer_vars, aggregator_vars, tracker_vars>>

NextAggregator == RemoveDuplicates

SpecAggregator == InitAggregator /\ [][NextAggregator]_vars

(***************************************************************************)
(* Properties of the aggregator                                             *)
(***************************************************************************)

\* the lower-cased, trimmed title and company of a job
NormalizedPair(job) == <<Strip(Lower(job.title)), Strip(Lower(job.company))>>

\* the places of the fetched list whose normalized pair no earlier place has
FirstOccurrences ==
    {i \in JobIdx : \A j \in 1..(i - 1) : NormalizedPair(jobs[j]) # NormalizedPair(jobs[i])}

\* C20 as claimed: the list handed on holds, in the order fetched, exactly the
\* first occurrence of every normalized (title, company) pair of the fetched
\* jobs: no two jobs of it share a pair, and a job is dropped only when an
\* earlier job has its pair, jobs with empty title and company included.
C20_FirstOccurrencesKept ==
    pc = "deduplicated" =>
        /\ Len(result) = Cardinality(FirstOccurrences)
        /\ \A i \in FirstOccurrences : InResult(jobs[i])
        /\ \A p, q \in 1..Len(result) : p < q => PlaceIn(jobs, result[p]) < PlaceIn(jobs, result[q])

WorkModesGiven == Active(filters, "work_modes")

\* the piece is in the job's title or in its description, whatever the case of
\* the two
Mentions(job, piece) ==
    \/ Contains(Lower(Get(job, "title", <<>>)), piece)
    \/ Contains(Lower(Get(job, "description", <<>>)), piece)

\* the keeping condition of C21, in the claim's words
WorkModeKept(job) ==
    \/ \E k \in 1..Len(filters["work_modes"]) : Mentions(job, Lower(filters["work_modes"][k]))
    \/ \A keyword \in {<<"r","e","m","o","t","e">>, <<"h","y","b","r","i","d">>, <<"o","n","-","s","i","t","e">>, <<"o","n","s","i","t","e">>, <<"o","f","f","i","c","e">>} :
          ~Mentions(job, keyword)

\* C21: with work_modes not empty, a job is kept if and only if its title and
\* description, lower-cased, hold a requested mode, lower-cased, or hold none of
\* the keywords remote, hybrid, on-site, onsite, office.
C21_WorkModeFilter ==
    (Ranked /\ WorkModesGiven /\ OnlyKeys({"work_modes"})) =>
        \A i \in JobIdx : InResult(jobs[i]) <=> WorkModeKept(jobs[i])

\* C21's case: ["remote"] against a job that names the mode in its title, which
\* is kept, and a job of an office, which names another mode and is not.
C21_Witness ==
    /\ Ranked /\ WorkModesGiven /\ OnlyKeys({"work_modes"})
    /\ filters["work_modes"] = <<<<"r","e","m","o","t","e">>>>
    /\ \E i, j \in JobIdx :
        /\ Mentions(jobs[i], <<"r","e","m","o","t","e">>) /\ InResult(jobs[i])
        /\ Mentions(jobs[j], <<"o","f","f","i","c","e">>) /\ ~Mentions(jobs[j], <<"r","e","m","o","t","e">>) /\ ~InResult(jobs[j])

SortBy == Get(filters, "sort_by", "match_score")

\* salary_max, an absent or null one counting as 0
SalaryMaxOf(job) ==
    IF "salary_max" \notin DOMAIN job \/ job.salary_max = None THEN 0 ELSE job.salary_max[1]

\* the returned list goes down by salary_max
DownBySalary ==
    \A p, q \in 1..Len(result) : p < q =>
        \/ SalaryMaxOf(result[p]) > SalaryMaxOf(result[q])
        \/ /\ SalaryMaxOf(result[p]) = SalaryMaxOf(result[q])
           /\ PlaceIn(jobs, result[p]) < PlaceIn(jobs, result[q])

\* the returned list goes down by the created string, compared character by
\* character
DownByCreated ==
    \A p, q \in 1..Len(result) : p < q =>
        \/ StrLt(CreatedOf(result[q]), CreatedOf(result[p]))
        \/ /\ CreatedOf(result[p]) = CreatedOf(result[q])
           /\ PlaceIn(jobs, result[p]) < PlaceIn(jobs, result[q])

\* C22: with sort_by = salary the returned jobs go down by salary_max, an absent
\* or null salary_max counting as 0, and with sort_by = date they go down by the
\* created string in lexicographic order; jobs of equal keys keep the order they
\* had in the input, whatever their other fields.
C22_SortBySalaryOrDate ==
    Ranked =>
        /\ SortBy = "salary" => DownBySalary
        /\ SortBy = "date" => DownByCreated

\* C22's case: three jobs come back sorted by salary, one without a salary_max
\* placed before a later one of salary_max 0 and both after a job with a salary;
\* and three come back sorted by date, the first of them created after the last.
C22_Witness ==
    /\ Ranked /\ Len(result) = 3
    /\ \/ /\ SortBy = "salary"
          /\ "salary_max" \notin DOMAIN result[2] /\ Get(result[3], "salary_max", None) = Some(0)
          /\ SalaryMaxOf(result[1]) > 0 /\ PlaceIn(jobs, result[1]) = 3
       \/ /\ SortBy = "date"
          /\ StrLt(CreatedOf(result[3]), CreatedOf(result[1])) /\ PlaceIn(jobs, result[1]) = 3

\* the job passes the test of every stage that the criteria make active
PassesEveryActiveFilter(job) ==
    /\ Active(filters, "job_types") => KeepJobType(job, filters["job_types"])
    /\ Active(filters, "work_modes") => KeepWorkMode(job, filters["work_modes"])
    /\ DateWindowGiven => KeepDate(job, Cutoff)
    /\ (Get(filters, "salary_min", None) # None \/ Get(filters, "salary_max", None) # None) =>
          KeepSalary(job, Get(filters, "salary_min", None), Get(filters, "salary_max", None))
    /\ ActiveNum(filters, "min_match_score") => KeepMatchScore(job, filters["min_match_score"][1])
    /\ ActiveNum(filters, "max_distance_miles") => KeepDistance(job, filters["max_distance_miles"][1])

\* the six stages run in the opposite order, and the sort
StagesReversed ==
    _sort_jobs(
        StageJobType(StageWorkMode(StageDate(StageSalary(StageMatchScore(
            StageDistance(jobs, filters), filters), filters), filters, now), filters), filters),
        SortBy)

\* C23: a job is returned if and only if it passes every active filter by itself,
\* which is also what the call returns for that job alone, whatever the other jobs
\* of the input; the stages in another order return the same list; every returned
\* job is a job of the input, returned once, and a list that is not sorted
\* afterwards is in the order of the input.
C23_FiltersArePerJob ==
    Ranked =>
        /\ \A i \in JobIdx :
              /\ InResult(jobs[i]) <=> PassesEveryActiveFilter(jobs[i])
              /\ InResult(jobs[i]) <=> Len(filter_and_rank(<<jobs[i]>>, filters, now)) = 1
        /\ StagesReversed = result
        /\ \A p \in 1..Len(result) : \E i \in JobIdx : result[p] = jobs[i]
        /\ \A p, q \in 1..Len(result) : p < q => result[p] # result[q]
        /\ SortBy \notin {"match_score", "date", "salary"} =>
              \A p, q \in 1..Len(result) : p < q => PlaceIn(jobs, result[p]) < PlaceIn(jobs, result[q])

\* C23's case: two stages are active, the first job passes one of them only and
\* the second passes both: the second is returned alone.
C23_Witness ==
    /\ Ranked /\ Len(jobs) = 2
    /\ Active(filters, "job_types") /\ ActiveNum(filters, "min_match_score")
    /\ ~KeepJobType(jobs[1], filters["job_types"])
    /\ KeepMatchScore(jobs[1], filters["min_match_score"][1])
    /\ result = <<jobs[2]>>

\* C24: filter_and_rank leaves the caller's list as it was, whatever the
\* criteria: as long, in the same order, every job record with the fields and
\* values it had.
C24_InputIsNotChanged == [][pc' = "ranked" => jobs' = jobs]_vars

\* C24's case: no stage built a new list and the jobs came back in another order
\* than the caller's list has, which still holds them as it did.
C24_Witness ==
    /\ Ranked /\ StagesReturnArgument(filters)
    /\ Len(result) = Len(jobs) /\ result # jobs
    /\ jobs \in SortLists(SortJobs)

\* the timestamp is strictly earlier than the cutoff; one that carries a UTC
\* offset is taken to be so when it is by more than a day, which no offset and no
\* zone of the clock makes up for
EarlierThan(d, cutoff) ==
    IF d.aware THEN d.day + 1 < cutoff.day ELSE ~DateGe(d, cutoff)

\* C25 as claimed: under a date window, a job whose created string parses to a
\* timestamp strictly earlier than the cutoff is not returned, whether the
\* timestamp carries a UTC offset or not.
C25_OlderThanCutoffExcluded ==
    (Ranked /\ DateWindowGiven) =>
        \A i \in JobIdx :
            LET d == _parse_date(CreatedOf(jobs[i]))
            IN  (d.ok /\ EarlierThan(d, Cutoff)) => ~InResult(jobs[i])

\* the same for the timestamps without a UTC offset
OlderWithoutOffsetExcluded ==
    (Ranked /\ DateWindowGiven) =>
        \A i \in JobIdx :
            LET d == _parse_date(CreatedOf(jobs[i]))
            IN  (d.ok /\ ~d.aware /\ EarlierThan(d, Cutoff)) => ~InResult(jobs[i])

(***************************************************************************)
(* The ranker called a second time, on the list it returned, with the same *)
(* criteria and at the same time.                                          *)
(***************************************************************************)

\* filter_and_rank(result, filters): the list returned is the caller's list now
FilterAndRankAgain ==
    /\ pc = "ranked"
    /\ result' = filter_and_rank(result, filters, now)
    /\ jobs' = CallersListAfter(result, filters, now)
    /\ pc' = "ranked_again"
    /\ UNCHANGED <<now, cv_data, filters, experience_years, required_years>>
    /\ UNCHANGED <<search_vars, vectorizer_vars, aggregator_vars, tracker_vars>>

NextRankTwice == FilterAndRank \/ FilterAndRankAgain

SpecRankTwice == InitRanker /\ [][NextRankTwice]_vars

\* C26: filter_and_rank applied to its own result, with the same criteria and at
\* the same time, returns the same jobs in the same order.
C26_RankingIsIdempotent == pc = "ranked_again" => result = jobs

\* C26's case: the second call was given three jobs that the first had put in
\* another order than they came in, two of them of one score.
C26_Witness ==
    /\ pc = "ranked_again" /\ Len(jobs) = 3 /\ SortBy = "match_score"
    /\ ScoreOf(jobs[1]) = ScoreOf(jobs[2]) /\ ScoreOf(jobs[2]) > ScoreOf(jobs[3])
    /\ jobs[3].job_id = 1

(***************************************************************************)
(* JobAggregator: the three fetches.  What a source answers is one of      *)
(*   [kind |-> "no_credentials"]   the key of the source is not set        *)
(*   [kind |-> "network_error"]    requests.get raises RequestException    *)
(*   [kind |-> "http_error"]       raise_for_status raises HTTPError       *)
(*   [kind |-> "ok", data |-> d]   d is the JSON object of the body        *)
(* A JSON value is JNull or J(v), v a str, a number, a list or an object   *)
(* (a function from the keys present to JSON values).                      *)
(***************************************************************************)

JNull == [null |-> TRUE]

J(v) == [null |-> FALSE, v |-> v]

\* the Python str or None of a JSON string or null
PyStr(j) == IF j.null THEN NoneStr ELSE j.v

\* the Python number or None of a JSON number or null
PyNum(j) == IF j.null THEN None ELSE Some(j.v)

\* what a fetch did: whether it was called, whether it raised, the list returned
Returned(js) == [called |-> TRUE, raised |-> FALSE, jobs |-> js]

FetchRaised == [called |-> TRUE, raised |-> TRUE, jobs |-> <<>>]

NotCalled == [called |-> FALSE, raised |-> FALSE, jobs |-> <<>>]

\* lines 95-108: job.get('company', {}).get(...) and job.get('location', {}).get(...)
\* raise AttributeError when the field is null
AdzunaJobRaises(job) ==
    Get(job, "company", J(EmptyDict)).null \/ Get(job, "location", J(EmptyDict)).null

\* the normalized record of an Adzuna job
NormalizedAdzuna(job, location) ==
    [source |-> <<"A","d","z","u","n","a">>,
     title |-> PyStr(Get(job, "title", J(<<>>))),
     company |-> PyStr(Get(Get(job, "company", J(EmptyDict)).v, "display_name", J(<<"U","n","k","n","o","w","n">>))),
     location |-> PyStr(Get(Get(job, "location", J(EmptyDict)).v, "display_name", J(location))),
     salary_min |-> PyNum(Get(job, "salary_min", JNull)),
     salary_max |-> PyNum(Get(job, "salary_max", JNull))]

\* JobAggregator.fetch_adzuna: only requests.exceptions.RequestException is caught
fetch_adzuna(answer, location) ==
    IF answer.kind \in {"no_credentials", "network_error", "http_error"} THEN Returned(<<>>)
    ELSE Only({ IF results.null THEN FetchRaised
                ELSE IF \E i \in 1..Len(results.v) : AdzunaJobRaises(results.v[i]) THEN FetchRaised
                ELSE Returned([i \in 1..Len(results.v) |-> NormalizedAdzuna(results.v[i], location)])
                : results \in {Get(answer.data, "results", J(<<>>))} })

\* the normalized record of a Reed job
NormalizedReed(job, location) ==
    [source |-> <<"R","e","e","d">>,
     title |-> PyStr(Get(job, "jobTitle", J(<<>>))),
     company |-> PyStr(Get(job, "employerName", J(<<"U","n","k","n","o","w","n">>))),
     location |-> PyStr(Get(job, "locationName", J(location))),
     salary_min |-> PyNum(Get(job, "minimumSalary", JNull)),
     salary_max |-> PyNum(Get(job, "maximumSalary", JNull))]

\* JobAggregator.fetch_reed
fetch_reed(answer, location) ==
    IF answer.kind \in {"no_credentials", "network_error", "http_error"} THEN Returned(<<>>)
    ELSE Only({ IF results.null THEN FetchRaised
                ELSE Returned([i \in 1..Len(results.v) |-> NormalizedReed(results.v[i], location)])
                : results \in {Get(answer.data, "results", J(<<>>))} })

\* lines 194-198: the salary of a JSearch job, read when job_salary is true
JSearchSalary(job, key) ==
    Only({ IF job_salary.null \/ job_salary.v = EmptyDict THEN None
           ELSE PyNum(Get(job_salary.v, key, JNull))
           : job_salary \in {Get(job, "job_salary", JNull)} })

\* the normalized record of a JSearch job
NormalizedJSearch(job, location) ==
    [source |-> <<"J","<<",">>e","a","r","c","h">>,
     title |-> PyStr(Get(job, "job_title", J(<<>>))),
     company |-> PyStr(Get(job, "employer_name", J(<<"U","n","k","n","o","w","n">>))),
     location |-> PyStr(Get(job, "job_city", J(location))),
     salary_min |-> JSearchSalary(job, "min_salary"),
     salary_max |-> JSearchSalary(job, "max_salary")]

\* JobAggregator.fetch_jsearch: the list of the body is cut to max_results
fetch_jsearch(answer, location, max_results) ==
    IF answer.kind \in {"no_credentials", "network_error", "http_error"} THEN Returned(<<>>)
    ELSE Only({ IF data.null THEN FetchRaised
                ELSE Returned([i \in 1..Len(Prefix(data.v, max_results)) |->
                                  NormalizedJSearch(data.v[i], location)])
                : data \in {Get(answer.data, "data", J(<<>>))} })

\* _remove_duplicates raises AttributeError on a title or company that is None
\* (lines 230-231)
DedupRaises(js) == \E i \in 1..Len(js) : js[i].title = NoneStr \/ js[i].company = NoneStr

\* answers without a body
Failures == {[kind |-> "no_credentials"], [kind |-> "network_error"], [kind |-> "http_error"]}

Ok(d) == [kind |-> "ok", data |-> d]

AdzunaAnswers ==
    Failures \cup
    { Ok(EmptyDict), Ok([results |-> JNull]),
      Ok([results |-> J(<< [title |-> J(<<"D","e","v","e","l","o","p","e","r">>), company |-> J([display_name |-> J(<<"A","c","m","e">>)]),
                            location |-> J([display_name |-> J(<<"L","e","e","d","s">>)]), salary_min |-> J(30)] >>)]),
      Ok([results |-> J(<< [title |-> J(<<"D","e","v","e","l","o","p","e","r">>), company |-> JNull] >>)]),
      Ok([results |-> J(<< [title |-> J(<<"T","e","s","t","e","r">>)], [title |-> JNull, company |-> J(EmptyDict)] >>)]) }

ReedAnswers ==
    Failures \cup
    { Ok([results |-> JNull]),
      Ok([results |-> J(<< [jobTitle |-> J(<<"d","e","v","e","l","o","p","e","r">>), employerName |-> J(<<"A","C","M","E">>), minimumSalary |-> JNull] >>)]),
      Ok([results |-> J(<< [jobTitle |-> J(<<"A","n","a","l","y","s","t">>), employerName |-> JNull] >>)]) }

JSearchAnswers ==
    Failures \cup
    { Ok([data |-> JNull]),
      Ok([data |-> J(<< [job_title |-> J(<<"E","n","g","i","n","e","e","r">>), employer_name |-> J(<<"B","o","l","t">>), job_salary |-> JNull],
                        [job_title |-> J(<<"D","e","s","i","g","n","e","r">>), job_salary |-> J([min_salary |-> J(40), max_salary |-> JNull])] >>)]) }

InitFetch ==
    /\ pc = "fetch"
    /\ upstream \in [adzuna : AdzunaAnswers, reed : ReedAnswers, jsearch : JSearchAnswers,
                     location : {<<"L","e","e","d","s">>}, max_results : {1, 50}]
    /\ fetches = [adzuna |-> NotCalled, reed |-> NotCalled, jsearch |-> NotCalled]
    /\ jobs = <<>>
    /\ result = <<>>
    /\ now \in NowPool
    /\ cv_data = EmptyDict
    /\ filters = NoFilters
    /\ experience_years = 0
    /\ required_years = None
    /\ SearchIdle /\ VectorizerFresh /\ TrackerIdle

\* JobAggregator.fetch_all_jobs: the three fetches in turn, then the
\* deduplication; an exception of any of them ends the call
FetchAllJobs ==
    /\ pc = "fetch"
    /\ \E a \in {fetch_adzuna(upstream.adzuna, upstream.location)},
          r \in {fetch_reed(upstream.reed, upstream.location)},
          j \in {fetch_jsearch(upstream.jsearch, upstream.location, upstream.max_results)} :
          /\ fetches' = [adzuna |-> a,
                         reed |-> IF a.raised THEN NotCalled ELSE r,
                         jsearch |-> IF a.raised \/ r.raised THEN NotCalled ELSE j]
          /\ IF a.raised \/ r.raised \/ j.raised
             THEN pc' = "fetch_raised" /\ UNCHANGED <<jobs, result>>
             ELSE /\ jobs' = a.jobs \o r.jobs \o j.jobs
                  /\ IF DedupRaises(jobs')
                     THEN pc' = "fetch_raised" /\ UNCHANGED result
                     ELSE pc' = "fetched_all" /\ result' = _remove_duplicates(jobs')
    /\ UNCHANGED <<now, cv_data, filters, experience_years, required_years, upstream>>
    /\ UNCHANGED <<search_vars, vectorizer_vars, tracker_vars>>

NextFetch == FetchAllJobs

SpecFetch == InitFetch /\ [][NextFetch]_vars

\* C27 as claimed: whatever the three sources answer (no credentials, a network
\* error, an HTTP error status, or a body with fields missing or null), each of
\* the three fetches is made and returns a list, without raising.
C27_FetchesNeverRaise ==
    pc \in {"fetched_all", "fetch_raised"} =>
        \A source \in {"adzuna", "reed", "jsearch"} :
            fetches[source].called /\ ~fetches[source].raised

\* the same for the answers without a body
FailuresGiveEmptyLists ==
    pc \in {"fetched_all", "fetch_raised"} =>
        \A source \in {"adzuna", "reed", "jsearch"} :
            upstream[source] \in Failures => fetches[source] \in {NotCalled, Returned(<<>>)}

(***************************************************************************)
(* ApplicationTracker: the applications table is the sequence of its rows  *)
(* in the order they were inserted; `sequence` is the greatest id given so *)
(* far (id INTEGER PRIMARY KEY AUTOINCREMENT).  Every method opens its own  *)
(* connection and closes it in its last statements.  When the INSERT of    *)
(* track_application raises, conn.close() is not reached: the connection   *)
(* stays open, with the transaction the INSERT began and its write lock,   *)
(* until the garbage collector finds it.  While it is open (`locked`),     *)
(* every statement of another connection that writes fails after the       *)
(* timeout of 5 seconds with OperationalError, database is locked; the     *)
(* SELECT of check_if_applied is not held up.                              *)
(***************************************************************************)

\* the largest number of calls of the tracker
MaxOps == 3

\* the INSERT of track_application fails on a null job_title or company (NOT NULL,
\* lines 29-30) and sqlite3 raises IntegrityError
InsertRaises(job) ==
    Get(job, "title", <<>>) = NoneStr \/ Get(job, "company", <<>>) = NoneStr

\* the row that track_application inserts; status is not among the columns of
\* the INSERT and takes the default 'Applied' of line 38
InsertedRow(id, job, notes) ==
    [id |-> id, job_title |-> Get(job, "title", <<>>), company |-> Get(job, "company", <<>>),
     notes |-> notes, status |-> <<"A","p","p","l","i","e","d">>]

\* UPDATE applications SET status = ? WHERE id = ?
UpdatedRows(rows, app_id, status) ==
    [i \in 1..Len(rows) |-> IF rows[i].id = app_id THEN [rows[i] EXCEPT !.status = status] ELSE rows[i]]

\* cursor.rowcount of the UPDATE
RowCount(rows, app_id) == Cardinality({i \in 1..Len(rows) : rows[i].id = app_id})

\* check_if_applied with the two comparisons made without regard to case
CheckIfAppliedNoCase(rows, job) ==
    Only({ /\ pair[1] # NoneStr /\ pair[2] # NoneStr
           /\ Cardinality({i \in 1..Len(rows) :
                  Lower(rows[i].job_title) = Lower(pair[1]) /\ Lower(rows[i].company) = Lower(pair[2])}) > 0
           : pair \in {<<Get(job, "title", <<>>), Get(job, "company", <<>>)>>} })

\* ApplicationTracker.check_if_applied: SELECT COUNT(*) ... WHERE job_title = ? AND
\* company = ?, which no row satisfies for a null parameter
check_if_applied(rows, job) ==
    Only({ /\ pair[1] # NoneStr /\ pair[2] # NoneStr
           /\ Cardinality({i \in 1..Len(rows) :
                  rows[i].job_title = pair[1] /\ rows[i].company = pair[2]}) > 0
           : pair \in {<<Get(job, "title", <<>>), Get(job, "company", <<>>)>>} })

\* str(e) of the HTTPException raised at line 280: "404: Application not found",
\* or the empty string with a Starlette whose HTTPException has no __str__
HTTPExceptionStr == {<<"4","0","4",":"," ","A","p","p","l","i","c","a","t","i","o","n"," ","n","o","t"," ","f","o","u","n","d">>, <<>>}

\* jobs of the tracker's calls: two that differ in the case of the title only, one
\* of another company, one without a title and one with a null title
TrackerJobs ==
    { [title |-> <<"D","e","v","e","l","o","p","e","r">>, company |-> <<"A","c","m","e">>], [title |-> <<"d","e","v","e","l","o","p","e","r">>, company |-> <<"A","c","m","e">>],
      [title |-> <<"D","e","v","e","l","o","p","e","r">>, company |-> <<"B","o","l","t">>], [company |-> <<"A","c","m","e">>],
      [title |-> NoneStr, company |-> <<"A","c","m","e">>] }

\* the status values of the direct calls
TrackerStatuses == {<<"I","n","t","e","r","v","i","e","w">>}

\* the bodies of the update-status requests
StatusRequests == {[status |-> <<"O","f","f","e","r">>], EmptyDict}

InitTracker ==
    /\ pc = "tracker"
    /\ TrackerIdle
    /\ jobs = <<>>
    /\ result = <<>>
    /\ now \in NowPool
    /\ cv_data = EmptyDict
    /\ filters = NoFilters
    /\ experience_years = 0
    /\ required_years = None
    /\ SearchIdle /\ VectorizerFresh /\ AggregatorIdle

\* what a call of the tracker leaves alone
UnchangedByTracker ==
    UNCHANGED <<pc, now, cv_data, jobs, filters, result, experience_years, required_years,
                search_vars, vectorizer_vars, aggregator_vars>>

\* ApplicationTracker.track_application: it has no try block, so an error of
\* the INSERT leaves the method before conn.close() of line 119
TrackApplication(job, notes) ==
    /\ pc = "tracker" /\ step < MaxOps
    /\ step' = step + 1
    /\ IF locked
       THEN /\ call' = [op |-> "track_application", job |-> job, raised |-> TRUE]
            /\ UNCHANGED <<applications, sequence, locked>>
       ELSE IF InsertRaises(job)
       THEN /\ call' = [op |-> "track_application", job |-> job, raised |-> TRUE]
            /\ locked' = TRUE
            /\ UNCHANGED <<applications, sequence>>
       ELSE /\ sequence' = sequence + 1
            /\ applications' = Append(applications, InsertedRow(sequence', job, notes))
            /\ call' = [op |-> "track_application", job |-> job, raised |-> FALSE, returned |-> sequence']
            /\ UNCHANGED locked
    /\ reply' = EmptyDict
    /\ UnchangedByTracker

\* the rows after update_application_status: an error of the UPDATE goes to the
\* except clause of lines 78-80 and nothing is written
RowsAfterUpdate(rows, is_locked, app_id, status) ==
    IF is_locked THEN rows ELSE UpdatedRows(rows, app_id, status)

\* what update_application_status returns: updated, or False from the except
\* clause
UpdateReturns(rows, is_locked, app_id) ==
    IF is_locked THEN FALSE ELSE RowCount(rows, app_id) > 0

\* ApplicationTracker.update_application_status
UpdateApplicationStatus(app_id, status) ==
    /\ pc = "tracker" /\ step < MaxOps
    /\ step' = step + 1
    /\ applications' = RowsAfterUpdate(applications, locked, app_id, status)
    /\ call' = [op |-> "update_application_status", app_id |-> app_id, status |-> status,
                returned |-> UpdateReturns(applications, locked, app_id)]
    /\ reply' = EmptyDict
    /\ UNCHANGED <<sequence, locked>>
    /\ UnchangedByTracker

\* ApplicationTracker.clear_all_applications: DELETE FROM applications, which
\* leaves the counter of AUTOINCREMENT as it is
ClearAllApplications ==
    /\ pc = "tracker" /\ step < MaxOps
    /\ step' = step + 1
    /\ applications' = IF locked THEN applications ELSE <<>>
    /\ call' = [op |-> "clear_all_applications", raised |-> locked]
    /\ reply' = EmptyDict
    /\ UNCHANGED <<sequence, locked>>
    /\ UnchangedByTracker

\* ApplicationTracker.check_if_applied
CheckIfApplied(job) ==
    /\ pc = "tracker" /\ step < MaxOps
    /\ step' = step + 1
    /\ call' = [op |-> "check_if_applied", job |-> job, returned |-> check_if_applied(applications, job)]
    /\ reply' = EmptyDict
    /\ UNCHANGED <<applications, sequence, locked>>
    /\ UnchangedByTracker

\* main.py, PUT /api/applications/{app_id}/status: the HTTPException of line 280
\* is raised inside the try block and caught by `except Exception` of line 281,
\* which raises another one with status 500
UpdateStatusRequest(app_id, body) ==
    /\ pc = "tracker" /\ step < MaxOps
    /\ step' = step + 1
    /\ \E new_status \in {Get(body, "status", NoneStr)} :
        /\ applications' = RowsAfterUpdate(applications, locked, app_id, new_status)
        /\ call' = [op |-> "update_application_status", app_id |-> app_id, status |-> new_status,
                    returned |-> UpdateReturns(applications, locked, app_id)]
        /\ IF call'.returned
           THEN reply' = [status_code |-> 200, success |-> TRUE, status |-> new_status]
           ELSE \E detail \in HTTPExceptionStr :
                    reply' = [status_code |-> 500, success |-> FALSE, detail |-> detail]
    /\ UNCHANGED <<sequence, locked>>
    /\ UnchangedByTracker

\* the garbage collector frees the connection that a failed INSERT left open,
\* which closes it and gives up its lock
CollectGarbage ==
    /\ pc = "tracker" /\ locked
    /\ locked' = FALSE
    /\ UNCHANGED <<applications, sequence, call, reply, step>>
    /\ UnchangedByTracker

NextTracker ==
    \/ \E job \in TrackerJobs : TrackApplication(job, <<>>)
    \/ \E app_id \in 1..MaxOps, status \in TrackerStatuses : UpdateApplicationStatus(app_id, status)
    \/ ClearAllApplications
    \/ \E job \in TrackerJobs : CheckIfApplied(job)
    \/ \E app_id \in 1..MaxOps, body \in StatusRequests : UpdateStatusRequest(app_id, body)
    \/ CollectGarbage

SpecTracker == InitTracker /\ [][NextTracker]_vars

(***************************************************************************)
(* Properties of the tracker                                               *)
(***************************************************************************)

\* an application with this id is stored
Stored(rows, app_id) == \E i \in 1..Len(rows) : rows[i].id = app_id

\* the last call was a request to the update-status handler
Replied == reply # EmptyDict

\* C28 as claimed: the update-status handler answers a request for an id that is
\* not stored with status 404 and 'Application not found', and answers success
\* only when update_application_status changed a row.
C28_UnknownIdAnswered404 ==
    Replied =>
        /\ ~Stored(applications, call.app_id) =>
              (reply.status_code = 404 /\ reply.detail = <<"A","p","p","l","i","c","a","t","i","o","n"," ","n","o","t"," ","f","o","u","n","d">>)
        /\ reply.success => call.returned

\* the second half alone: success only when a row was changed
SuccessOnlyWhenUpdated == Replied => (reply.success => (call.returned /\ Stored(applications, call.app_id)))

\* a call of the tracker was made in this step
CallMade == step' = step + 1

\* the rows are as they were, but for the status of the application app_id,
\* which is now status
OnlyStatusChanged(before, after, app_id, status) ==
    /\ Len(after) = Len(before)
    /\ \A i \in 1..Len(before) :
          IF before[i].id = app_id
          THEN after[i] = [before[i] EXCEPT !.status = status]
          ELSE after[i] = before[i]

\* C29 as claimed: whatever calls of track_application, update_application_status
\* and clear_all_applications were made before, update_application_status(id, s)
\* returns true if and only if an application with that id is stored; when it
\* returns true, only the status of that application changes, to s; when it
\* returns false, the store is as it was; and an application that was just
\* tracked has the status 'Applied'.
C29_UpdateStatusFrame ==
    [][CallMade =>
        /\ call'.op = "update_application_status" =>
              /\ call'.returned <=> Stored(applications, call'.app_id)
              /\ call'.returned =>
                    OnlyStatusChanged(applications, applications', call'.app_id, call'.status)
              /\ ~call'.returned => applications' = applications
        /\ (call'.op = "track_application" /\ ~call'.raised) =>
              /\ SubSeq(applications', 1, Len(applications)) = applications
              /\ Len(applications') = Len(applications) + 1
              /\ applications'[Len(applications')].id = call'.returned
              /\ applications'[Len(applications')].status = <<"A","p","p","l","i","e","d">>
              /\ ~Stored(applications, call'.returned)
      ]_vars

\* the same while no connection is left open by a track_application that raised
UpdateStatusFrameUnlocked ==
    [][(CallMade /\ ~locked) =>
        /\ call'.op = "update_application_status" =>
              /\ call'.returned <=> Stored(applications, call'.app_id)
              /\ call'.returned =>
                    OnlyStatusChanged(applications, applications', call'.app_id, call'.status)
              /\ ~call'.returned => applications' = applications
        /\ (call'.op = "track_application" /\ ~call'.raised) =>
              /\ SubSeq(applications', 1, Len(applications)) = applications
              /\ applications'[Len(applications')].status = <<"A","p","p","l","i","e","d">>
      ]_vars

\* whenever update_application_status returns false, the store is as it was,
\* and it returns true for stored ids only
UpdateNeverWritesWhenFalse ==
    [][(CallMade /\ call'.op = "update_application_status") =>
        /\ call'.returned => Stored(applications, call'.app_id)
        /\ ~call'.returned => applications' = applications
      ]_vars

\* the two jobs have the same title and the same company, character by
\* character, a job without one of them having the empty one
SameTitleAndCompany(a, b) ==
    /\ Get(a, "title", <<>>) = Get(b, "title", <<>>)
    /\ Get(a, "company", <<>>) = Get(b, "company", <<>>)

\* C30: check_if_applied(job) is false for every job before the first call; a
\* track_application that returns makes it true for the jobs of the same title
\* and company as the tracked job and changes it for no other job; a
\* clear_all_applications that returns makes it false for every job; and
\* update_application_status, check_if_applied itself and the calls that raise
\* change it for no job.  So it is true exactly for the jobs of the title and
\* company of an application tracked since the last clear.
C30_AppliedIffTracked ==
    /\ step = 0 => \A job \in TrackerJobs : ~check_if_applied(applications, job)
    /\ [][CallMade =>
            \A job \in TrackerJobs :
                check_if_applied(applications', job) <=>
                    CASE call'.op = "track_application" /\ ~call'.raised ->
                            check_if_applied(applications, job) \/ SameTitleAndCompany(job, call'.job)
                      [] call'.op = "clear_all_applications" /\ ~call'.raised -> FALSE
                      [] OTHER -> check_if_applied(applications, job)
         ]_vars

\* C30's case: an application was tracked, its status was changed, and
\* check_if_applied returned true for its job and no other
C30_Witness ==
    /\ call # EmptyDict /\ call.op = "check_if_applied" /\ call.returned
    /\ Len(applications) = 1 /\ applications[1].status = <<"I","n","t","e","r","v","i","e","w">>
    /\ \A job \in TrackerJobs :
          check_if_applied(applications, job) <=> SameTitleAndCompany(job, call.job)
    /\ \E job \in TrackerJobs : Lower(Get(job, "title", <<>>)) = Lower(Get(call.job, "title", <<>>))
                                  /\ ~check_if_applied(applications, job)

====
